---- MODULE Spec2Model ----
(***************************************************************************)
(* Model of the OpenGL renderer of awi (src/src/render/opengl/mod.rs):     *)
(* the resource tables, the shape collections with their index lists, the  *)
(* per-frame update() and draw_shape().                                     *)
(*                                                                         *)
(* Indices are 0-based as in the code; a Vec is a TLA+ sequence, so the    *)
(* element at index i is vec[i + 1].  Option<T> is a sequence of length at *)
(* most one: None is << >>, Some(x) is << x >>.  A GPU buffer or texture   *)
(* object is named by the table and position it was created for, which is *)
(* a faithful name of its identity because tables are append-only.         *)
(* A Matrix is represented by its translation column <<x, y, z>>, the only *)
(* part of the matrix that any modelled computation reads.                 *)
(***************************************************************************)
EXTENDS Integers, Sequences, FiniteSets, TLC

VARIABLES
    opaque_ind,   \* Display.opaque_ind : Vec<u32>
    alpha_ind,    \* Display.alpha_ind  : Vec<u32>
    opaque_vec,   \* Display.opaque_vec : Vec<ShapeData>
    alpha_vec,    \* Display.alpha_vec  : Vec<ShapeData>
    gui_vec,      \* Display.gui_vec    : Vec<ShapeData>
    models,       \* Display.models     : Vec<ModelData>
    texcoords,    \* Display.texcoords  : Vec<TexcoordsData>
    gradients,    \* Display.gradients  : Vec<GradientData>
    textures,     \* Display.textures   : Vec<TextureData>
    xyz,          \* Display.xyz        : camera position
    ar,           \* Display.ar         : aspect ratio
    projection,   \* Display.projection : projection matrix
    viewport,     \* the viewport of the GPU context
    images,       \* the content of each GPU texture object
    status,       \* "running", or "panicked" once an operation has panicked
    op,           \* the operation that ran last, with the arguments claims read
    ret,          \* Option of the handle the last operation returned
    calls,        \* the calls the last operation made on the GPU context and zsort
    issued,       \* history: the shape handles returned so far
    dropped,      \* history: the shape handles whose drop_shape completed
    last_matrix,  \* history: per issued handle, the matrix last given for it
    created,      \* history: per list, the number of shape_* calls that returned
    origin,       \* history: per issued handle, the call and the model it came from
    queue,        \* Window.input_queue.queue : Vec<Event>
    reset,        \* Window.reset
    os_wh,        \* the window size the windowing layer keeps, the *wh of InputQueue::resize
    polled,       \* history: get_events has run at least once
    gathered,     \* history: the events the last get_events put in the queue, in order
    handed,       \* history: what Window::update returned since the last get_events
    vdata,        \* the VertexData handles made so far: VertexDataContext(index, buffer, ..)
    enabled,      \* the vertex attribute slots enabled on the GPU context
    lookup        \* history: per handle, what the attribute lookup answered

vars == << opaque_ind, alpha_ind, opaque_vec, alpha_vec, gui_vec, models,
           texcoords, gradients, textures, xyz, ar, projection, viewport, images,
           status, op, ret, calls,
           issued, dropped, last_matrix, created, origin,
           queue, reset, os_wh, polled, gathered, handed,
           vdata, enabled, lookup >>

(***************************************************************************)
(* Bounds of the model.                                                    *)
(***************************************************************************)
MaxShapes == 2

MaxModels == 1

MaxAttribs == 1

MaxTextures == 1

\* The length of each resource table where tables are what is looked at.
MaxTableLen == 2

\* The number of vertex data handles.
MaxHandles == 3

\* The number of events one get_events gathers.
MaxPoll == 3

\* The length of the input queue where the queue is used on its own.
MaxQueue == 3

(***************************************************************************)
(* Program constants.                                                      *)
(***************************************************************************)
STYLE_GRADIENT == 0

STYLE_TEXTURE == 1

STYLE_FADED == 2

STYLE_TINTED == 3

STYLE_SOLID == 4

STYLE_COMPLEX == 5

StyleIds == 0 .. 5

None == << >>

Some(x) == << x >>

(***************************************************************************)
(* Inputs.                                                                 *)
(***************************************************************************)
\* model(vertices, fans): the length of the vertex slice and the fan list.
ModelInputs ==
    { [len |-> 16, fans |-> << <<0, 4>> >>],
      [len |-> 8,  fans |-> << <<0, 1>>, <<1, 2>> >>] }

\* gradient(colors): the length of the colour slice.
GradientInputs == { 16, 8 }

\* texcoords(texcoords): the number of (f32, f32) pairs.
TexcoordInputs == { 4 }

\* texture(wh, graphic): the size and the image.
TextureInputs == { [ wh |-> <<2, 2>>, graphic |-> "img1" ] }

\* set_texture(texture, wh, graphic): the size and the image.
SetTextureInputs ==
    { [ wh |-> <<2, 2>>, graphic |-> "img1" ], [ wh |-> <<4, 4>>, graphic |-> "img2" ] }

\* window.wh() when the Display is built, and the sizes passed to resize().
InitialSize == <<800, 600>>

WindowSizes == { <<400, 300>>, <<600, 800>> }

\* Transformation matrices, by translation column: those shapes are created
\* with, and those passed to transform().
Matrices == { <<1, 0, 0>>, <<0, 3, 0>> }

MovedMatrices == { <<0, 3, 0>>, <<0, 0, 5>> }

Colors == { <<1, 0, 0, 1>> }

Alphas == { 1 }

(***************************************************************************)
(* Styles.  Style::new looks up every uniform and attribute by name; a     *)
(* slot the shader does not declare is kept as absent.  Which slots each   *)
(* of the six shader pairs declares is the content of the GLSL sources.    *)
(***************************************************************************)
\* The six programs, each named by the vertex and fragment source it is built from.
ShaderSolid == << "solid-vert", "solid-frag" >>

ShaderGradient == << "gradient-vert", "gradient-frag" >>

ShaderTexture == << "texture-vert", "texture-frag" >>

ShaderFaded == << "faded-vert", "texture-frag" >>

ShaderTinted == << "texture-vert", "tinted-frag" >>

ShaderComplex == << "complex-vert", "complex-frag" >>

StyleDeclares(program, slot) ==
    CASE slot = "texpos" ->
             program \in { ShaderTexture, ShaderFaded, ShaderTinted, ShaderComplex }
      [] slot = "acolor" -> program \in { ShaderGradient, ShaderComplex }
      [] slot = "alpha"  -> program \in { ShaderFaded }
      [] slot = "color"  -> program \in { ShaderSolid, ShaderTinted }
      [] OTHER           -> TRUE

\* Style::new: one record per program, every location resolved once.
StyleNew(program) ==
    [ shader |-> program,
      texpos |-> StyleDeclares(program, "texpos"),
      acolor |-> StyleDeclares(program, "acolor"),
      alpha  |-> StyleDeclares(program, "alpha"),
      color  |-> StyleDeclares(program, "color") ]

\* Variant: the array lists the styles in the order new() builds them.
styles_BuildOrder ==
    LET array == << StyleNew(ShaderSolid), StyleNew(ShaderGradient),
                    StyleNew(ShaderTexture), StyleNew(ShaderFaded),
                    StyleNew(ShaderTinted), StyleNew(ShaderComplex) >>
    IN [ k \in StyleIds |-> array[k + 1] ]

\* Display.styles: the array new() fills, indexed from 0 by shape.style.
styles ==
    LET array == << StyleNew(ShaderGradient), StyleNew(ShaderTexture),
                    StyleNew(ShaderFaded), StyleNew(ShaderTinted),
                    StyleNew(ShaderSolid), StyleNew(ShaderComplex) >>
    IN [ k \in StyleIds |-> array[k + 1] ]

(***************************************************************************)
(* Shape handles and shape data.                                           *)
(***************************************************************************)
Opaque(x) == [ tag |-> "Opaque", index |-> x ]

Alpha(x) == [ tag |-> "Alpha", index |-> x ]

\* ShapeData::point: the origin moved by the shape's transform.
Point(shape) == shape.transform

\* Squared Euclidean distance between two vectors (the sort key; the square
\* root is monotone, so the order it induces is the same).
Distance(p, q) ==
    (p[1] - q[1]) * (p[1] - q[1]) + (p[2] - q[2]) * (p[2] - q[2])
        + (p[3] - q[3]) * (p[3] - q[3])

\* The comparison zsort orders by: a may stay before b.
InOrder(a, b, points, nearest, position) ==
    IF nearest
    THEN Distance(Point(points[a + 1]), position) <= Distance(Point(points[b + 1]), position)
    ELSE Distance(Point(points[a + 1]), position) >= Distance(Point(points[b + 1]), position)

RECURSIVE InsertStable(_, _, _, _, _)
\* Insert index x into the sorted sequence s behind every element it may follow.
InsertStable(s, x, points, nearest, position) ==
    IF s = << >> THEN << x >>
    ELSE IF InOrder(s[Len(s)], x, points, nearest, position)
         THEN Append(s, x)
         ELSE Append(InsertStable(SubSeq(s, 1, Len(s) - 1), x, points, nearest, position),
                     s[Len(s)])

RECURSIVE zsort(_, _, _, _)
\* base::zsort(sort, points, nearest, position): stable sort of the index list by
\* distance from position, ascending when nearest, descending otherwise.
zsort(sort, points, nearest, position) ==
    IF sort = << >> THEN << >>
    ELSE InsertStable(zsort(SubSeq(sort, 1, Len(sort) - 1), points, nearest, position),
                      sort[Len(sort)], points, nearest, position)

(***************************************************************************)
(* draw_shape.                                                             *)
(***************************************************************************)
\* The unwrap() calls of draw_shape: one of them fails on a missing field.
DrawShapePanics(style, shape) ==
    \/ style.texpos /\ (shape.buffers[1] = None \/ shape.texture = None)
    \/ style.acolor /\ shape.buffers[1] = None
    \/ style.alpha /\ shape.alpha = None
    \/ style.color /\ shape.color = None

\* style.matrix_uniform.set_mat4(shape.transform.into())
MatrixCalls(style, shape) ==
    << [ call |-> "set_mat4", slot |-> "matrix_uniform", val |-> shape.transform ] >>

\* if !style.texpos.is_none() { texpos.set(buffers[0]); texture.bind() }
TexposCalls(style, shape) ==
    IF style.texpos
    THEN << [ call |-> "vertex_data", slot |-> "texpos", val |-> shape.buffers[1][1] ],
            [ call |-> "bind_texture", slot |-> "texture", val |-> shape.texture[1] ] >>
    ELSE << >>

\* Variant: the colour attribute takes the second buffer when there is one.
AcolorCalls_FromSecond(style, shape) ==
    IF style.acolor
    THEN << [ call |-> "vertex_data", slot |-> "acolor",
              val |-> IF shape.buffers[2] /= None THEN shape.buffers[2][1]
                      ELSE shape.buffers[1][1] ] >>
    ELSE << >>

\* if !style.acolor.is_none() { acolor.set(buffers[0]) }
AcolorCalls(style, shape) ==
    IF style.acolor
    THEN << [ call |-> "vertex_data", slot |-> "acolor", val |-> shape.buffers[1][1] ] >>
    ELSE << >>

\* if !style.alpha.is_none() { alpha.set_vec1(shape.alpha.unwrap()) }
AlphaCalls(style, shape) ==
    IF style.alpha
    THEN << [ call |-> "set_vec1", slot |-> "alpha", val |-> shape.alpha[1] ] >>
    ELSE << >>

\* if !style.color.is_none() { color.set_vec4(&shape.color.unwrap()) }
ColorCalls(style, shape) ==
    IF style.color
    THEN << [ call |-> "set_vec4", slot |-> "color", val |-> shape.color[1] ] >>
    ELSE << >>

\* Variant: the fog uniform is only touched for a shape with fog.
FogCalls_OnlyWhenSet(style, shape) ==
    IF shape.has_fog
    THEN << [ call |-> "set_int1", slot |-> "has_fog", val |-> 1 ] >>
    ELSE << >>

\* if shape.has_fog { has_fog.set_int1(1) } else { has_fog.set_int1(0) }
FogCalls(style, shape) ==
    << [ call |-> "set_int1", slot |-> "has_fog", val |-> IF shape.has_fog THEN 1 ELSE 0 ] >>

\* Variant: the vertex buffer is looked up again, in the newest model.
PositionCalls_FromTable(style, shape) ==
    << [ call |-> "vertex_data", slot |-> "position",
         val |-> models[Len(models)].vertex_buffer ] >>

\* style.position.set(&shape.vertex_buffer)
PositionCalls(style, shape) ==
    << [ call |-> "vertex_data", slot |-> "position", val |-> shape.vertex_buffer ] >>

\* Variant: only the first fan of the list is drawn.
FanCalls_FirstOnly(style, shape) ==
    [ i \in 1 .. (IF shape.fans = << >> THEN 0 ELSE 1) |->
        [ call |-> "draw_arrays", slot |-> "TriangleFan", val |-> shape.fans[i],
          program |-> style.shader ] ]

\* for i in shape.fans.iter() { style.shader.draw_arrays(TriangleFan, i.0..i.1) }
FanCalls(style, shape) ==
    [ i \in 1 .. Len(shape.fans) |->
        [ call |-> "draw_arrays", slot |-> "TriangleFan", val |-> shape.fans[i],
          program |-> style.shader ] ]

\* The GPU calls of draw_shape(style, shape), in order.
DrawShapeCalls(style, shape) ==
    MatrixCalls(style, shape)
    \o TexposCalls(style, shape)
    \o AcolorCalls(style, shape)
    \o AlphaCalls(style, shape)
    \o ColorCalls(style, shape)
    \o FogCalls(style, shape)
    \o PositionCalls(style, shape)
    \o FanCalls(style, shape)

\* One draw_shape(&self.styles[shape.style], shape) of update(): which stored
\* shape it is for, the style it uses and the GPU calls it makes.
draw_shape(list, x, shape) ==
    [ call  |-> "draw_shape",
      list  |-> list,
      index |-> x,
      style |-> shape.style,
      shape |-> shape,
      gpu   |-> DrawShapeCalls(styles[shape.style], shape) ]

\* for shape in as_mut(&self.<list>_vec).iter() { draw_shape(..) }
DrawLoop(list, vec) ==
    [ i \in 1 .. Len(vec) |-> draw_shape(list, i - 1, vec[i]) ]

(***************************************************************************)
(* Aspect ratio and projection.                                            *)
(***************************************************************************)
RECURSIVE Gcd(_, _)
Gcd(a, b) == IF b = 0 THEN a ELSE Gcd(b, a % b)

\* Variant: the ratio is taken height over width.
AspectRatio_Inverted(wh) ==
    << wh[2] \div Gcd(wh[1], wh[2]), wh[1] \div Gcd(wh[1], wh[2]) >>

\* wh.0 as f32 / wh.1 as f32: the quotient, kept as a fraction in lowest terms.
AspectRatio(wh) == << wh[1] \div Gcd(wh[1], wh[2]), wh[2] \div Gcd(wh[1], wh[2]) >>

\* 0.5 * PI, as a fraction of PI.
FieldOfView == <<1, 2>>

\* base::projection(ar, fov): the perspective matrix for that ratio and field of view.
Projection(ratio, fov) == [ ar |-> ratio, fov |-> fov ]

(***************************************************************************)
(* Initial state: the Display built by new().                              *)
(***************************************************************************)
NoOp == [ name |-> "new" ]

Init ==
    /\ opaque_ind = << >>
    /\ alpha_ind = << >>
    /\ opaque_vec = << >>
    /\ alpha_vec = << >>
    /\ gui_vec = << >>
    /\ models = << >>
    /\ texcoords = << >>
    /\ gradients = << >>
    /\ textures = << >>
    /\ xyz = <<0, 0, 0>>
    /\ ar = AspectRatio(InitialSize)
    /\ projection = Projection(AspectRatio(InitialSize), FieldOfView)
    /\ viewport = InitialSize
    /\ images = << >>
    /\ status = "running"
    /\ op = NoOp
    /\ ret = None
    /\ calls = << >>
    /\ issued = { }
    /\ dropped = { }
    /\ last_matrix = << >>
    /\ created = [ Opaque |-> 0, Alpha |-> 0 ]
    /\ origin = << >>
    /\ queue = << >>
    /\ reset = FALSE
    /\ os_wh = InitialSize
    /\ polled = FALSE
    /\ gathered = << >>
    /\ handed = << >>
    /\ vdata = << >>
    /\ enabled = { }
    /\ lookup = << >>

Running == status = "running"

tables == << models, texcoords, gradients, textures >>

screen == << xyz, ar, projection, viewport >>

lists == << opaque_ind, alpha_ind, opaque_vec, alpha_vec, gui_vec >>

\* The window with its input queue, and the vertex data handles.
window == << queue, reset, os_wh, polled, gathered, handed >>

vertex == << vdata, enabled, lookup >>

\* What no operation of the renderer's drawing side writes.
outside == << window, vertex >>

history == << issued, dropped, last_matrix, created, origin >>

\* A panic!() or a failed unwrap(): the operation stops where it is.
Panic(name) ==
    /\ status' = "panicked"
    /\ op' = [ name |-> name ]
    /\ ret' = None
    /\ calls' = << >>
    /\ UNCHANGED << outside, lists, tables, screen, images, history >>

\* The panic!() of a shape_* call whose vertex counts do not match; args are
\* the arguments the call was given.
ShapePanic(name, args) ==
    /\ status' = "panicked"
    /\ op' = [ name |-> name, args |-> args ]
    /\ ret' = None
    /\ calls' = << >>
    /\ UNCHANGED << outside, lists, tables, screen, images, history >>

(***************************************************************************)
(* Resource tables.                                                        *)
(***************************************************************************)
BufferNew(table, index) == << table, index >>

\* vertices.len() as u32 / 4
ModelVertexCount(len) == len \div 4

\* colors.len() as u32 / 4
GradientVertexCount(len) == len \div 4

\* texcoords.len() as u32
TexcoordsVertexCount(n) == n

\* Variant: the index is read after the push.
TableIndex_AfterPush(table) == Len(table) + 1

\* let a = self.<table>.len() as u32, read before the push
TableIndex(table) == Len(table)

\* Display::model
AddModelUpTo(max) ==
    /\ Running
    /\ Len(models) < max
    /\ \E in \in ModelInputs :
         LET index == TableIndex(models)
             vertex_buffer == BufferNew("models", Len(models))
         IN /\ models' = Append(models,
                    [ vertex_buffer |-> vertex_buffer,
                      vertex_count  |-> ModelVertexCount(in.len),
                      fans          |-> in.fans ])
            /\ calls' = << [ call |-> "buffer_set", slot |-> vertex_buffer, val |-> in.len ] >>
            /\ ret' = Some([ tag |-> "Model", index |-> index ])
    /\ op' = [ name |-> "model" ]
    /\ UNCHANGED << outside, lists, texcoords, gradients, textures, screen, images, status, history >>

AddModel == AddModelUpTo(MaxModels)

AddModelMany == AddModelUpTo(MaxTableLen)

\* Display::texture
AddTextureUpTo(max) ==
    /\ Running
    /\ Len(textures) < max
    /\ \E graphic \in TextureInputs :
         LET a == TableIndex(textures)
             t == BufferNew("textures", Len(textures))
         IN /\ textures' = Append(textures, [ t |-> t ])
            /\ images' = (t :> graphic) @@ images
            /\ calls' = << [ call |-> "texture_set", slot |-> t, val |-> graphic ] >>
            /\ ret' = Some([ tag |-> "Texture", index |-> a ])
    /\ op' = [ name |-> "texture" ]
    /\ UNCHANGED << outside, lists, models, texcoords, gradients, screen, status, history >>

AddTexture == AddTextureUpTo(MaxTextures)

AddTextureMany == AddTextureUpTo(MaxTableLen)

\* Display::gradient
AddGradientUpTo(max) ==
    /\ Running
    /\ Len(gradients) < max
    /\ \E len \in GradientInputs :
         LET a == TableIndex(gradients)
             vertex_buffer == BufferNew("gradients", Len(gradients))
         IN /\ gradients' = Append(gradients,
                    [ vertex_buffer |-> vertex_buffer,
                      vertex_count  |-> GradientVertexCount(len) ])
            /\ calls' = << [ call |-> "buffer_set", slot |-> vertex_buffer, val |-> len ] >>
            /\ ret' = Some([ tag |-> "Gradient", index |-> a ])
    /\ op' = [ name |-> "gradient" ]
    /\ UNCHANGED << outside, lists, models, texcoords, textures, screen, images, status, history >>

AddGradient == AddGradientUpTo(MaxAttribs)

AddGradientMany == AddGradientUpTo(MaxTableLen)

\* Display::texcoords: every (x, y) pair is padded to four floats.
AddTexcoordsUpTo(max) ==
    /\ Running
    /\ Len(texcoords) < max
    /\ \E n \in TexcoordInputs :
         LET a == TableIndex(texcoords)
             vertex_buffer == BufferNew("texcoords", Len(texcoords))
         IN /\ texcoords' = Append(texcoords,
                    [ vertex_buffer |-> vertex_buffer,
                      vertex_count  |-> TexcoordsVertexCount(n) ])
            /\ calls' = << [ call |-> "buffer_set", slot |-> vertex_buffer, val |-> 4 * n ] >>
            /\ ret' = Some([ tag |-> "TexCoords", index |-> a ])
    /\ op' = [ name |-> "texcoords" ]
    /\ UNCHANGED << outside, lists, models, gradients, textures, screen, images, status, history >>

AddTexcoords == AddTexcoordsUpTo(MaxAttribs)

AddTexcoordsMany == AddTexcoordsUpTo(MaxTableLen)

(***************************************************************************)
(* Shape creation.                                                         *)
(***************************************************************************)
\* Variant: the comparison never reports a mismatch.
CountMismatch_Never(model, paired) == FALSE

\* The vertex-count comparison that guards a paired buffer.
CountMismatch(model, paired) == model.vertex_count /= paired.vertex_count

\* Variant: the two branches exchanged.
ListOf_Swapped(blending) == IF blending THEN "Opaque" ELSE "Alpha"

\* if blending { .. Alpha .. } else { .. Opaque .. }
ListOf(blending) == IF blending THEN "Alpha" ELSE "Opaque"

\* Variant: the index is the length of the index list, not of the collection.
NewIndex_OfIndexList(vec) ==
    IF vec = opaque_vec THEN Len(opaque_ind) ELSE Len(alpha_ind)

\* let index = <list>_vec.len() as u32
NewIndex(vec) == Len(vec)

\* Variant: the alpha given to the call is not stored.
ShapeData_NoAlpha(style, buffers, fog, alpha, color, texture, model, transform) ==
    [ style         |-> style,
      buffers       |-> buffers,
      has_fog       |-> fog,
      alpha         |-> None,
      color         |-> color,
      transform     |-> transform,
      texture       |-> texture,
      vertex_buffer |-> models[model + 1].vertex_buffer,
      fans          |-> models[model + 1].fans ]

\* The fields of ShapeData every shape_* fills from the model and its arguments.
ShapeData(style, buffers, fog, alpha, color, texture, model, transform) ==
    [ style         |-> style,
      buffers       |-> buffers,
      has_fog       |-> fog,
      alpha         |-> alpha,
      color         |-> color,
      transform     |-> transform,
      texture       |-> texture,
      vertex_buffer |-> models[model + 1].vertex_buffer,
      fans          |-> models[model + 1].fans ]

\* Variant: a blended shape is also kept in the gui list.
PushShape_AlsoGui(name, model, shape, tag, blending, args) ==
    /\ IF tag = "Alpha"
       THEN LET index == NewIndex(alpha_vec)
            IN /\ alpha_vec' = Append(alpha_vec, shape)
               /\ alpha_ind' = Append(alpha_ind, index)
               /\ gui_vec' = Append(gui_vec, shape)
               /\ ret' = Some(Alpha(index))
               /\ issued' = issued \cup { Alpha(index) }
               /\ last_matrix' = (Alpha(index) :> shape.transform) @@ last_matrix
               /\ created' = [ created EXCEPT !.Alpha = @ + 1 ]
               /\ origin' = (Alpha(index) :> [ name |-> name, model |-> model ]) @@ origin
               /\ UNCHANGED << opaque_vec, opaque_ind >>
       ELSE LET index == NewIndex(opaque_vec)
            IN /\ opaque_vec' = Append(opaque_vec, shape)
               /\ opaque_ind' = Append(opaque_ind, index)
               /\ ret' = Some(Opaque(index))
               /\ issued' = issued \cup { Opaque(index) }
               /\ last_matrix' = (Opaque(index) :> shape.transform) @@ last_matrix
               /\ created' = [ created EXCEPT !.Opaque = @ + 1 ]
               /\ origin' = (Opaque(index) :> [ name |-> name, model |-> model ]) @@ origin
               /\ UNCHANGED << alpha_vec, alpha_ind, gui_vec >>
    /\ op' = [ name |-> name, blending |-> blending, args |-> args ]
    /\ calls' = << >>
    /\ UNCHANGED << outside, tables, screen, images, status, dropped >>

\* base::new_shape(if blending { push to alpha } else { push to opaque })
PushShape(name, model, shape, tag, blending, args) ==
    /\ IF tag = "Alpha"
       THEN LET index == NewIndex(alpha_vec)
            IN /\ alpha_vec' = Append(alpha_vec, shape)
               /\ alpha_ind' = Append(alpha_ind, index)
               /\ ret' = Some(Alpha(index))
               /\ issued' = issued \cup { Alpha(index) }
               /\ last_matrix' = (Alpha(index) :> shape.transform) @@ last_matrix
               /\ created' = [ created EXCEPT !.Alpha = @ + 1 ]
               /\ origin' = (Alpha(index) :> [ name |-> name, model |-> model ]) @@ origin
               /\ UNCHANGED << opaque_vec, opaque_ind >>
       ELSE LET index == NewIndex(opaque_vec)
            IN /\ opaque_vec' = Append(opaque_vec, shape)
               /\ opaque_ind' = Append(opaque_ind, index)
               /\ ret' = Some(Opaque(index))
               /\ issued' = issued \cup { Opaque(index) }
               /\ last_matrix' = (Opaque(index) :> shape.transform) @@ last_matrix
               /\ created' = [ created EXCEPT !.Opaque = @ + 1 ]
               /\ origin' = (Opaque(index) :> [ name |-> name, model |-> model ]) @@ origin
               /\ UNCHANGED << alpha_vec, alpha_ind >>
    /\ op' = [ name |-> name, blending |-> blending, args |-> args ]
    /\ calls' = << >>
    /\ UNCHANGED << outside, gui_vec, tables, screen, images, status, dropped >>

ShapeRoom == Len(opaque_vec) + Len(alpha_vec) < MaxShapes

ModelHandles == 0 .. Len(models) - 1

TextureHandles == 0 .. Len(textures) - 1

GradientHandles == 0 .. Len(gradients) - 1

TexCoordsHandles == 0 .. Len(texcoords) - 1

\* Variant: a shape created without the camera is stored without fog.
ShapeSolid_FogNeedsCamera ==
    /\ Running /\ ShapeRoom
    /\ \E model \in ModelHandles, transform \in Matrices, color \in Colors,
          blending \in BOOLEAN, fog \in BOOLEAN, camera \in BOOLEAN :
         LET args == [ model |-> model, transform |-> transform, color |-> color,
                       blending |-> blending, fog |-> fog, camera |-> camera ]
         IN PushShape("shape_solid", model,
                      ShapeData(STYLE_SOLID, << None, None >>, fog /\ camera, None,
                                Some(color), None, model, transform),
                      ListOf(blending), Some(blending), args)

\* Display::shape_solid
ShapeSolid ==
    /\ Running /\ ShapeRoom
    /\ \E model \in ModelHandles, transform \in Matrices, color \in Colors,
          blending \in BOOLEAN, fog \in BOOLEAN, camera \in BOOLEAN :
         LET args == [ model |-> model, transform |-> transform, color |-> color,
                       blending |-> blending, fog |-> fog, camera |-> camera ]
         IN PushShape("shape_solid", model,
                      ShapeData(STYLE_SOLID, << None, None >>, fog, None, Some(color),
                                None, model, transform),
                      ListOf(blending), Some(blending), args)

\* Display::shape_gradient
ShapeGradient ==
    /\ Running /\ ShapeRoom
    /\ \E model \in ModelHandles, transform \in Matrices, colors \in GradientHandles,
          blending \in BOOLEAN, fog \in BOOLEAN, camera \in BOOLEAN :
         LET args == [ model |-> model, transform |-> transform, colors |-> colors,
                       blending |-> blending, fog |-> fog, camera |-> camera ]
         IN IF CountMismatch(models[model + 1], gradients[colors + 1])
            THEN ShapePanic("shape_gradient", args)
            ELSE PushShape("shape_gradient", model,
                           ShapeData(STYLE_GRADIENT,
                                     << Some(gradients[colors + 1].vertex_buffer), None >>,
                                     fog, None, None, None, model, transform),
                           ListOf(blending), Some(blending), args)

\* Display::shape_texture
ShapeTexture ==
    /\ Running /\ ShapeRoom
    /\ \E model \in ModelHandles, transform \in Matrices, texture \in TextureHandles,
          tc \in TexCoordsHandles, blending \in BOOLEAN, fog \in BOOLEAN,
          camera \in BOOLEAN :
         LET args == [ model |-> model, transform |-> transform, texture |-> texture,
                       tc |-> tc, blending |-> blending, fog |-> fog,
                       camera |-> camera ]
         IN IF CountMismatch(models[model + 1], texcoords[tc + 1])
            THEN ShapePanic("shape_texture", args)
            ELSE PushShape("shape_texture", model,
                           ShapeData(STYLE_TEXTURE,
                                     << Some(texcoords[tc + 1].vertex_buffer), None >>,
                                     fog, None, None, Some(textures[texture + 1].t),
                                     model, transform),
                           ListOf(blending), Some(blending), args)

\* Display::shape_faded: always pushed to the alpha list.
ShapeFaded ==
    /\ Running /\ ShapeRoom
    /\ \E model \in ModelHandles, transform \in Matrices, texture \in TextureHandles,
          tc \in TexCoordsHandles, alpha \in Alphas, fog \in BOOLEAN,
          camera \in BOOLEAN :
         LET args == [ model |-> model, transform |-> transform, texture |-> texture,
                       tc |-> tc, alpha |-> alpha, fog |-> fog, camera |-> camera ]
         IN IF CountMismatch(models[model + 1], texcoords[tc + 1])
            THEN ShapePanic("shape_faded", args)
            ELSE PushShape("shape_faded", model,
                           ShapeData(STYLE_FADED,
                                     << Some(texcoords[tc + 1].vertex_buffer), None >>,
                                     fog, Some(alpha), None, Some(textures[texture + 1].t),
                                     model, transform),
                           "Alpha", None, args)

\* Display::shape_tinted
ShapeTinted ==
    /\ Running /\ ShapeRoom
    /\ \E model \in ModelHandles, transform \in Matrices, texture \in TextureHandles,
          tc \in TexCoordsHandles, tint \in Colors, blending \in BOOLEAN,
          fog \in BOOLEAN, camera \in BOOLEAN :
         LET args == [ model |-> model, transform |-> transform, texture |-> texture,
                       tc |-> tc, tint |-> tint, blending |-> blending, fog |-> fog,
                       camera |-> camera ]
         IN IF CountMismatch(models[model + 1], texcoords[tc + 1])
            THEN ShapePanic("shape_tinted", args)
            ELSE PushShape("shape_tinted", model,
                           ShapeData(STYLE_TINTED,
                                     << Some(texcoords[tc + 1].vertex_buffer), None >>,
                                     fog, None, Some(tint), Some(textures[texture + 1].t),
                                     model, transform),
                           ListOf(blending), Some(blending), args)

\* Display::shape_complex
ShapeComplex ==
    /\ Running /\ ShapeRoom
    /\ \E model \in ModelHandles, transform \in Matrices, texture \in TextureHandles,
          tc \in TexCoordsHandles, tints \in GradientHandles, blending \in BOOLEAN,
          fog \in BOOLEAN, camera \in BOOLEAN :
         LET args == [ model |-> model, transform |-> transform, texture |-> texture,
                       tc |-> tc, tints |-> tints, blending |-> blending, fog |-> fog,
                       camera |-> camera ]
         IN IF CountMismatch(models[model + 1], texcoords[tc + 1])
            THEN ShapePanic("shape_complex", args)
            ELSE IF CountMismatch(models[model + 1], gradients[tints + 1])
            THEN ShapePanic("shape_complex", args)
            ELSE PushShape("shape_complex", model,
                           ShapeData(STYLE_COMPLEX,
                                     << Some(texcoords[tc + 1].vertex_buffer),
                                        Some(gradients[tints + 1].vertex_buffer) >>,
                                     fog, None, None, Some(textures[texture + 1].t),
                                     model, transform),
                           ListOf(blending), Some(blending), args)

(***************************************************************************)
(* drop_shape and transform.                                               *)
(***************************************************************************)
\* ind.iter().position(|y| *y == x): Option of the first position holding x.
Position(ind, x) ==
    IF \E i \in 1 .. Len(ind) : ind[i] = x
    THEN Some((CHOOSE i \in 1 .. Len(ind) :
                  ind[i] = x /\ \A j \in 1 .. i - 1 : ind[j] /= x) - 1)
    ELSE None

\* Variant: the list is cut at the index, losing what stands behind it too.
Remove_Truncate(ind, index) == SubSeq(ind, 1, index)

\* Vec::remove(index): the elements behind index move one place forward.
Remove(ind, index) ==
    SubSeq(ind, 1, index) \o SubSeq(ind, index + 2, Len(ind))

\* Display::drop_shape: the handle's index leaves the index list; the backing
\* collection is not touched.
DropShape ==
    /\ Running
    /\ \E shape \in issued :
         LET ind == IF shape.tag = "Opaque" THEN opaque_ind ELSE alpha_ind
             index == Position(ind, shape.index)
         IN IF index = None
            THEN /\ status' = "panicked"
                 /\ op' = [ name |-> "drop_shape", shape |-> shape ]
                 /\ ret' = None
                 /\ calls' = << >>
                 /\ UNCHANGED << outside, lists, tables, screen, images, history >>
            ELSE /\ IF shape.tag = "Opaque"
                    THEN /\ opaque_ind' = Remove(opaque_ind, index[1])
                         /\ UNCHANGED alpha_ind
                    ELSE /\ alpha_ind' = Remove(alpha_ind, index[1])
                         /\ UNCHANGED opaque_ind
                 /\ dropped' = dropped \cup { shape }
                 /\ op' = [ name |-> "drop_shape", shape |-> shape ]
                 /\ ret' = None
                 /\ calls' = << >>
                 /\ UNCHANGED << outside, opaque_vec, alpha_vec, gui_vec, tables, screen, images, status,
                                 issued, last_matrix, created, origin >>

\* Variant: every stored shape of the collection receives the matrix.
SetTransform_All(vec, x, transform) ==
    [ i \in 1 .. Len(vec) |-> [ vec[i] EXCEPT !.transform = transform ] ]

\* Variant: the stored matrix is left as it was.
SetTransform_Stale(vec, x, transform) == vec

\* Variant: the entry is written back with the matrix and fog switched off.
SetTransform_Rebuilt(vec, x, transform) ==
    [ vec EXCEPT ![x + 1] = [ @ EXCEPT !.transform = transform, !.has_fog = FALSE ] ]

\* as_mut(&self.<list>_vec)[x].transform = transform
SetTransform(vec, x, transform) ==
    [ vec EXCEPT ![x + 1].transform = transform ]

\* Display::transform
Transform ==
    /\ Running
    /\ \E shape \in issued, transform \in MovedMatrices :
         /\ IF shape.tag = "Opaque"
            THEN /\ opaque_vec' = SetTransform(opaque_vec, shape.index, transform)
                 /\ UNCHANGED alpha_vec
            ELSE /\ alpha_vec' = SetTransform(alpha_vec, shape.index, transform)
                 /\ UNCHANGED opaque_vec
         /\ last_matrix' = [ last_matrix EXCEPT ![shape] = transform ]
         /\ op' = [ name |-> "transform", shape |-> shape ]
    /\ ret' = None
    /\ calls' = << >>
    /\ UNCHANGED << outside, opaque_ind, alpha_ind, gui_vec, tables, screen, images, status, issued, dropped,
                    created, origin >>

(***************************************************************************)
(* update: one frame.                                                      *)
(***************************************************************************)
\* Variant: the last style is left out.
CameraCalls_SkipLast ==
    [ k \in 1 .. 5 |->
        [ call |-> "set_int1", slot |-> "has_camera", style |-> k - 1, val |-> 1 ] ]

\* for i in (&self.styles).iter() { i.has_camera.set_int1(1); }
CameraCalls ==
    [ k \in 1 .. 6 |->
        [ call |-> "set_int1", slot |-> "has_camera", style |-> k - 1, val |-> 1 ] ]

\* base::zsort(&mut self.<list>_ind, .., nearest, self.xyz), as update() calls it.
SortCall(list, ind) == [ call |-> "zsort", list |-> list, sort |-> ind ]

\* Variant: depth testing is switched off before the alpha pass.
UpdateCalls_DepthOffEarly ==
    CameraCalls
    \o << [ call |-> "enable", slot |-> "DepthTest" ] >>
    \o << SortCall("Opaque", opaque_ind) >>
    \o DrawLoop("Opaque", opaque_vec)
    \o << [ call |-> "disable", slot |-> "DepthTest" ] >>
    \o << SortCall("Alpha", alpha_ind) >>
    \o DrawLoop("Alpha", alpha_vec)
    \o DrawLoop("Gui", gui_vec)
    \o << [ call |-> "swap", slot |-> "context" ] >>

\* The calls of one update(), in program order.
UpdateCalls ==
    CameraCalls
    \o << [ call |-> "enable", slot |-> "DepthTest" ] >>
    \o << SortCall("Opaque", opaque_ind) >>
    \o DrawLoop("Opaque", opaque_vec)
    \o << SortCall("Alpha", alpha_ind) >>
    \o DrawLoop("Alpha", alpha_vec)
    \o << [ call |-> "disable", slot |-> "DepthTest" ] >>
    \o DrawLoop("Gui", gui_vec)
    \o << [ call |-> "swap", slot |-> "context" ] >>

\* Variant: both lists are sorted nearest first.
Nearest_Both(list) == TRUE

\* The nearest argument update() gives zsort: true for opaque_ind, false for alpha_ind.
Nearest(list) == list = "Opaque"

\* The position of the first call of a frame whose draw_shape fails an unwrap(),
\* or 0 when none does.
FirstPanic(frame) ==
    LET bad == { i \in 1 .. Len(frame) :
                    /\ frame[i].call = "draw_shape"
                    /\ DrawShapePanics(styles[frame[i].style], frame[i].shape) }
    IN IF bad = { } THEN 0 ELSE CHOOSE i \in bad : \A j \in bad : i <= j

\* Variant: the alpha index list is emptied once its shapes are drawn.
Update_DrainsAlpha ==
    /\ Running
    /\ LET frame == UpdateCalls
           stop == FirstPanic(frame)
       IN /\ calls' = IF stop = 0 THEN frame ELSE SubSeq(frame, 1, stop - 1)
          /\ status' = IF stop = 0 THEN "running" ELSE "panicked"
          /\ opaque_ind' = zsort(opaque_ind, opaque_vec, Nearest("Opaque"), xyz)
          /\ alpha_ind' = IF stop = 0 THEN << >> ELSE alpha_ind
    /\ op' = [ name |-> "update" ]
    /\ ret' = None
    /\ UNCHANGED << outside, opaque_vec, alpha_vec, gui_vec, tables, screen, images, history >>

\* Display::update
Update ==
    /\ Running
    /\ LET frame == UpdateCalls
           stop == FirstPanic(frame)
       IN /\ calls' = IF stop = 0 THEN frame ELSE SubSeq(frame, 1, stop - 1)
          /\ status' = IF stop = 0 THEN "running" ELSE "panicked"
          /\ opaque_ind' = zsort(opaque_ind, opaque_vec, Nearest("Opaque"), xyz)
          /\ alpha_ind' =
                IF stop /= 0 /\ \E i \in 1 .. stop : frame[i].call = "draw_shape"
                                                     /\ frame[i].list = "Opaque"
                THEN alpha_ind
                ELSE zsort(alpha_ind, alpha_vec, Nearest("Alpha"), xyz)
    /\ op' = [ name |-> "update" ]
    /\ ret' = None
    /\ UNCHANGED << outside, opaque_vec, alpha_vec, gui_vec, tables, screen, images, history >>

\* Variant: the entry receives a new texture object holding the content.
SetTexture_NewObject ==
    /\ Running
    /\ \E texture \in TextureHandles, in \in SetTextureInputs :
         LET t == BufferNew("replaced", texture)
         IN /\ textures' = [ textures EXCEPT ![texture + 1] = [ t |-> t ] ]
            /\ images' = (t :> in) @@ images
            /\ calls' = << [ call |-> "texture_set", slot |-> t, val |-> in ] >>
            /\ op' = [ name |-> "set_texture", texture |-> texture ]
    /\ ret' = None
    /\ UNCHANGED << outside, lists, models, texcoords, gradients, screen, status, history >>

\* Display::set_texture: new content for the texture object of the table entry.
SetTexture ==
    /\ Running
    /\ \E texture \in TextureHandles, in \in SetTextureInputs :
         LET t == textures[texture + 1].t
         IN /\ images' = [ images EXCEPT ![t] = in ]
            /\ calls' = << [ call |-> "texture_set", slot |-> t, val |-> in ] >>
            /\ op' = [ name |-> "set_texture", texture |-> texture ]
    /\ ret' = None
    /\ UNCHANGED << outside, lists, tables, screen, status, history >>

\* Variant: the draw-order lists are emptied along with the screen data.
Resize_ClearsLists ==
    /\ Running
    /\ \E wh \in WindowSizes :
         /\ ar' = AspectRatio(wh)
         /\ viewport' = wh
         /\ projection' = Projection(AspectRatio(wh), FieldOfView)
         /\ calls' = << [ call |-> "viewport", slot |-> "context", val |-> wh ] >>
         /\ op' = [ name |-> "resize", wh |-> wh ]
    /\ opaque_ind' = << >>
    /\ alpha_ind' = << >>
    /\ ret' = None
    /\ UNCHANGED << outside, opaque_vec, alpha_vec, gui_vec, tables, xyz, images, status, history >>

\* Display::resize
Resize ==
    /\ Running
    /\ \E wh \in WindowSizes :
         /\ ar' = AspectRatio(wh)
         /\ viewport' = wh
         /\ projection' = Projection(AspectRatio(wh), FieldOfView)
         /\ calls' = << [ call |-> "viewport", slot |-> "context", val |-> wh ] >>
         /\ op' = [ name |-> "resize", wh |-> wh ]
    /\ ret' = None
    /\ UNCHANGED << outside, lists, tables, xyz, images, status, history >>

Next ==
    \/ AddModel
    \/ AddTexture
    \/ AddGradient
    \/ AddTexcoords
    \/ ShapeSolid
    \/ ShapeGradient
    \/ ShapeTexture
    \/ ShapeFaded
    \/ ShapeTinted
    \/ ShapeComplex
    \/ DropShape
    \/ Transform
    \/ Update

Spec == Init /\ [][Next]_vars

\* A caller that creates solid and textured shapes and never moves them, with
\* set_texture and resize.
NextScene ==
    \/ AddModel
    \/ AddTexture
    \/ AddGradient
    \/ AddTexcoords
    \/ ShapeSolid
    \/ ShapeTexture
    \/ DropShape
    \/ Update
    \/ SetTexture
    \/ Resize

SpecScene == Init /\ [][NextScene]_vars

\* The first shape_gradient of a Display.
ShapeGradientFirst ==
    /\ opaque_vec = << >>
    /\ alpha_vec = << >>
    /\ ShapeGradient

\* A caller that fills the resource tables further and creates one gradient
\* shape at some point, with every operation that takes no shape kind.
NextTables ==
    \/ AddModelMany
    \/ AddTextureMany
    \/ AddGradientMany
    \/ AddTexcoordsMany
    \/ ShapeGradientFirst
    \/ DropShape
    \/ Update
    \/ SetTexture
    \/ Resize

SpecTables == Init /\ [][NextTables]_vars

(***************************************************************************)
(* VertexData (asi/vertex_data.rs).                                        *)
(***************************************************************************)
\* Everything Display owns apart from the window.
display == << lists, tables, screen, images, status, history >>

\* What the attribute lookup of the GPU context can answer: -1 when the program
\* declares no attribute of that name, a slot number otherwise.
AttribLocations == { -1, 0, 1 }

\* The buffers a handle is set from.
BuffersToSet == { BufferNew("models", 0), BufferNew("gradients", 0) }

VertexDataHandles == 0 .. Len(vdata) - 1

\* attrib as u32, self.0 .0 as GLuint: the 32-bit two's complement pattern, as
\* its high and low 16-bit halves.
AsGLuint(i) == << (i \div 65536) % 65536, i % 65536 >>

\* Variant: the slot is enabled whatever the lookup answered.
Enables_Always(attrib) == TRUE

\* if attrib != -1
Enables(attrib) == attrib /= -1

\* VertexData::is_none
IsNone(v) == v.index = -1

\* VertexData::new
VertexDataNew ==
    /\ Running
    /\ Len(vdata) < MaxHandles
    /\ \E attrib \in AttribLocations :
         /\ vdata' = Append(vdata, [ index |-> attrib, buffer |-> None ])
         /\ lookup' = Append(lookup, attrib)
         /\ enabled' = IF Enables(attrib) THEN enabled \cup { AsGLuint(attrib) } ELSE enabled
         /\ calls' = << [ call |-> "vdata", slot |-> "program", val |-> attrib ] >>
                     \o (IF Enables(attrib)
                         THEN << [ call |-> "enable_vdata", slot |-> "context",
                                   val |-> AsGLuint(attrib) ] >>
                         ELSE << >>)
    /\ ret' = Some(Len(vdata))
    /\ op' = [ name |-> "vertex_data_new" ]
    /\ UNCHANGED << display, window >>

\* VertexData::is_none, asked of one of the handles
VertexDataIsNone ==
    /\ Running
    /\ \E h \in VertexDataHandles :
         /\ ret' = Some(IsNone(vdata[h + 1]))
         /\ op' = [ name |-> "is_none", handle |-> h ]
    /\ calls' = << >>
    /\ UNCHANGED << display, window, vertex >>

\* VertexData::set
VertexDataSet ==
    /\ Running
    /\ \E h \in VertexDataHandles, buffer \in BuffersToSet :
         /\ vdata' = [ vdata EXCEPT ![h + 1].buffer = Some(buffer) ]
         /\ calls' = << [ call |-> "bind", slot |-> "buffer", val |-> buffer ],
                        [ call |-> "vertex_attrib", slot |-> "context",
                          val |-> AsGLuint(vdata[h + 1].index) ] >>
         /\ op' = [ name |-> "vertex_data_set", handle |-> h ]
    /\ ret' = None
    /\ UNCHANGED << display, window, enabled, lookup >>

NextVertexData ==
    \/ VertexDataNew
    \/ VertexDataIsNone
    \/ VertexDataSet

SpecVertexData == Init /\ [][NextVertexData]_vars

(***************************************************************************)
(* new(): from nothing to a Display or an error.                           *)
(***************************************************************************)
\* enum WindowConnection
WindowConnections ==
    { "Xcb", "Wayland", "DirectFB", "Windows", "Android", "IOS", "AldaronsOS",
      "Arduino", "Switch", "Web", "NoOS" }

\* Result<Box<Display>, &'static str>
Ok == [ tag |-> "Ok" ]

Err(msg) == [ tag |-> "Err", msg |-> msg ]

\* Variant: the Wayland arm hands over a window as well.
Supported_AlsoWayland(connection) == connection \in { "Xcb", "Windows", "Wayland" }

\* The arms of the match on window.get_connection() that yield a native window.
Supported(connection) == connection \in { "Xcb", "Windows" }

\* The arms that return Err.
ErrorOf(connection) ==
    CASE connection = "Wayland"    -> "OpenGL support on Wayland is WIP"
      [] connection = "DirectFB"   -> "OpenGL support on DirectFB is WIP"
      [] connection = "Android"    -> "OpenGL support on Android is WIP"
      [] connection = "IOS"        -> "OpenGL support on iOS is WIP"
      [] connection = "AldaronsOS" -> "AldaronsOS doesn't support OpenGL"
      [] connection = "Arduino"    -> "Arduino doesn't support OpenGL"
      [] connection = "Switch"     -> "Nintendo Switch doesn't support OpenGL"
      [] connection = "Web"        -> "WebGL support is WIP"
      [] connection = "NoOS"       -> "NoOS doesn't support OpenGL"
      [] OTHER                     -> "none"

\* The settings new() makes on the context it obtained.
NewCalls(wh) ==
    << [ call |-> "disable", slot |-> "Dither" ],
       [ call |-> "enable", slot |-> "CullFace" ],
       [ call |-> "enable", slot |-> "Blend" ],
       [ call |-> "blend", slot |-> "context" ],
       [ call |-> "viewport", slot |-> "context", val |-> wh ] >>

\* Before new() has been called there is no Display: nothing is stored.
Unbuilt ==
    /\ opaque_ind = << >> /\ alpha_ind = << >>
    /\ opaque_vec = << >> /\ alpha_vec = << >> /\ gui_vec = << >>
    /\ models = << >> /\ texcoords = << >> /\ gradients = << >> /\ textures = << >>
    /\ xyz = << 0, 0, 0 >>
    /\ ar = << 0, 1 >>
    /\ projection = None
    /\ viewport = << 0, 0 >>
    /\ images = << >>
    /\ status = "unbuilt"
    /\ op = [ name |-> "none" ]
    /\ ret = None
    /\ calls = << >>
    /\ issued = { } /\ dropped = { }
    /\ last_matrix = << >>
    /\ created = [ Opaque |-> 0, Alpha |-> 0 ]
    /\ origin = << >>
    /\ queue = << >> /\ reset = FALSE
    /\ os_wh = InitialSize
    /\ polled = FALSE /\ gathered = << >> /\ handed = << >>
    /\ vdata = << >> /\ enabled = { } /\ lookup = << >>

\* new()
New ==
    /\ status = "unbuilt"
    /\ \E builder \in BOOLEAN, connection \in WindowConnections :
         IF ~builder
         THEN /\ status' = "error"
              /\ ret' = Some(Err("Couldn't find OpenGL!"))
              /\ op' = [ name |-> "new", builder |-> FALSE, connection |-> None ]
              /\ calls' = << >>
              /\ UNCHANGED << lists, tables, screen, images, history, outside >>
         ELSE IF ~Supported(connection)
         THEN /\ status' = "error"
              /\ ret' = Some(Err(ErrorOf(connection)))
              /\ op' = [ name |-> "new", builder |-> TRUE, connection |-> Some(connection) ]
              /\ calls' = << >>
              /\ UNCHANGED << lists, tables, screen, images, history, outside >>
         ELSE /\ status' = "running"
              /\ ret' = Some(Ok)
              /\ op' = [ name |-> "new", builder |-> TRUE, connection |-> Some(connection) ]
              /\ calls' = NewCalls(os_wh)
              /\ opaque_ind' = << >> /\ alpha_ind' = << >>
              /\ opaque_vec' = << >> /\ alpha_vec' = << >> /\ gui_vec' = << >>
              /\ models' = << >> /\ texcoords' = << >>
              /\ gradients' = << >> /\ textures' = << >>
              /\ xyz' = << 0, 0, 0 >>
              /\ ar' = AspectRatio(os_wh)
              /\ projection' = Projection(AspectRatio(os_wh), FieldOfView)
              /\ viewport' = os_wh
              /\ UNCHANGED << images, history, outside >>

\* A caller that builds the renderer and then uses solid shapes.
NextNew ==
    \/ New
    \/ AddModel
    \/ ShapeSolid
    \/ DropShape
    \/ Update

SpecNew == Unbuilt /\ [][NextNew]_vars

(***************************************************************************)
(* The window and its input queue (window.rs, input/mod.rs).               *)
(***************************************************************************)
\* The variants of Event that travel through the queue here.
Events == { "Resize", "Exit", "Pause" }

\* What one get_events can append: the events poll_event, keyboard.add and
\* stick submit, in the order they submit them.
EventBatches == UNION { [ 1 .. n -> Events ] : n \in 0 .. MaxPoll }

\* InputQueue::input: self.mods.update(&mut self.queue, input)
ModsUpdate(q, input) == Append(q, input)

\* Window::get_events, appending one batch.
GetEvents(q, batch) == q \o batch

\* Variant: the oldest event is taken.
QueuePop_Oldest(q) ==
    IF q = << >> THEN [ queue |-> q, ret |-> None ]
    ELSE [ queue |-> Tail(q), ret |-> Some(Head(q)) ]

\* InputQueue::pop: self.queue.pop(), the last element of the Vec.
QueuePop(q) ==
    IF q = << >> THEN [ queue |-> q, ret |-> None ]
    ELSE [ queue |-> SubSeq(q, 1, Len(q) - 1), ret |-> Some(q[Len(q)]) ]

\* Variant: reset is cleared, not set, before get_events.
ResetBeforePoll_Cleared(r) == FALSE

\* Variant: reset is left as it is before get_events.
ResetBeforePoll_Kept(r) == r

\* self.reset = true, right before get_events
ResetBeforePoll(r) == TRUE

\* Variant: the end of the frame does not clear reset.
ResetAfterNone_Kept(r) == r

\* self.reset = false, right before return None
ResetAfterNone(r) == FALSE

RECURSIVE WindowUpdateRun(_, _, _, _)
\* Window::update on queue q and flag r; batches are what the successive
\* get_events of this call would gather; depth counts the nested self-calls.
\* The result holds the queue and flag left, the value returned, the deepest
\* call and the batches gathered; a call nested deeper than there are batches
\* does not return (the recursion does not end).
WindowUpdateRun(q, r, batches, depth) ==
    LET popped == QueuePop(q)
    IN IF popped.ret /= None
       THEN [ queue |-> popped.queue, reset |-> r, ret |-> popped.ret,
              depth |-> depth, polls |-> << >>, returns |-> TRUE ]
       ELSE IF r
       THEN [ queue |-> q, reset |-> ResetAfterNone(r), ret |-> None,
              depth |-> depth, polls |-> << >>, returns |-> TRUE ]
       ELSE IF batches = << >>
       THEN [ queue |-> q, reset |-> r, ret |-> None,
              depth |-> depth, polls |-> << >>, returns |-> FALSE ]
       ELSE LET inner == WindowUpdateRun(GetEvents(q, Head(batches)), ResetBeforePoll(r),
                                         Tail(batches), depth + 1)
            IN [ inner EXCEPT !.polls = << Head(batches) >> \o @ ]

\* Window::update, reached through Display::input
WindowUpdate ==
    /\ Running
    /\ \E first \in EventBatches, second \in EventBatches :
         LET run == WindowUpdateRun(queue, reset, << first, second >>, 1)
         IN /\ queue' = run.queue
            /\ reset' = run.reset
            /\ ret' = run.ret
            /\ status' = IF run.returns THEN status ELSE "overflow"
            /\ op' = [ name |-> "input", depth |-> run.depth, polls |-> Len(run.polls) ]
            /\ calls' = [ k \in 1 .. Len(run.polls) |->
                            [ call |-> "get_events", val |-> run.polls[k] ] ]
            /\ polled' = (polled \/ run.polls /= << >>)
            /\ gathered' = IF run.polls = << >> THEN gathered
                           ELSE run.polls[Len(run.polls)]
            /\ handed' = IF run.polls = << >> THEN Append(handed, run.ret)
                         ELSE << run.ret >>
    /\ UNCHANGED << lists, tables, screen, images, history, os_wh, vertex >>

NextWindow == WindowUpdate

SpecWindow == Init /\ [][NextWindow]_vars

(***************************************************************************)
(* InputQueue on its own (input/mod.rs).                                   *)
(***************************************************************************)
\* The sizes the windowing layer reports.
ReportedSizes == { InitialSize } \cup WindowSizes

\* Variant: every report counts as a change.
SizeDiffers_Always(wh, d) == TRUE

\* if *wh != d
SizeDiffers(wh, d) == wh /= d

\* InputQueue::resize(wh, d), with wh the size the windowing layer keeps
InputResize ==
    /\ Running
    /\ Len(queue) < MaxQueue
    /\ \E d \in ReportedSizes :
         /\ IF SizeDiffers(os_wh, d)
            THEN /\ os_wh' = d
                 /\ queue' = ModsUpdate(queue, "Resize")
                 /\ calls' = << [ call |-> "input", val |-> "Resize" ] >>
            ELSE /\ UNCHANGED << os_wh, queue >>
                 /\ calls' = << >>
         /\ op' = [ name |-> "input_resize", d |-> d ]
    /\ ret' = None
    /\ UNCHANGED << display, reset, polled, gathered, handed, vertex >>

\* InputQueue::exit and InputQueue::pause: self.input(Event::Exit / Event::Pause)
InputSubmit ==
    /\ Running
    /\ Len(queue) < MaxQueue
    /\ \E e \in { "Exit", "Pause" } :
         /\ queue' = ModsUpdate(queue, e)
         /\ calls' = << [ call |-> "input", val |-> e ] >>
         /\ op' = [ name |-> "input_submit", event |-> e ]
    /\ ret' = None
    /\ UNCHANGED << display, reset, os_wh, polled, gathered, handed, vertex >>

\* InputQueue::pop
InputPop ==
    /\ Running
    /\ queue' = QueuePop(queue).queue
    /\ ret' = QueuePop(queue).ret
    /\ calls' = << >>
    /\ op' = [ name |-> "input_pop" ]
    /\ UNCHANGED << display, reset, os_wh, polled, gathered, handed, vertex >>

NextInput ==
    \/ InputResize
    \/ InputSubmit
    \/ InputPop

SpecInput == Init /\ [][NextInput]_vars

(***************************************************************************)
(* Vocabulary of the properties.                                           *)
(***************************************************************************)
ShapeOps ==
    { "shape_solid", "shape_gradient", "shape_texture", "shape_faded",
      "shape_tinted", "shape_complex" }

PairingOps == ShapeOps \ { "shape_solid" }

ListTags == { "Opaque", "Alpha" }

\* The state right after an update() that ran to its end.
FrameDone == status = "running" /\ op.name = "update"

\* The backing collection and the stored shape a handle designates.
VecOf(tag) == IF tag = "Opaque" THEN opaque_vec ELSE alpha_vec

IndOf(tag) == IF tag = "Opaque" THEN opaque_ind ELSE alpha_ind

StoredShape(h) == VecOf(h.tag)[h.index + 1]

\* The same after the step, for a handle that does not change in the step.
VecAfter(tag) == IF tag = "Opaque" THEN opaque_vec' ELSE alpha_vec'

IndAfter(tag) == IF tag = "Opaque" THEN opaque_ind' ELSE alpha_ind'

StoredAfter(h) == VecAfter(h.tag)[h.index + 1]

\* Positions in calls of the draw_shape calls for one list.
Draws(list) ==
    { i \in 1 .. Len(calls) : calls[i].call = "draw_shape" /\ calls[i].list = list }

AllDraws == { i \in 1 .. Len(calls) : calls[i].call = "draw_shape" }

\* Positions in calls of the GPU calls of update() itself with a given name and slot.
CallsNamed(call, slot) ==
    { i \in 1 .. Len(calls) :
        /\ calls[i].call \notin { "draw_shape", "zsort" }
        /\ calls[i].call = call
        /\ calls[i].slot = slot }

\* The indices of a list for which the frame called draw_shape.
DrawnIndices(list) == { calls[i].index : i \in Draws(list) }

\* The indices of a list that the frame handed to zsort.
SortedIndices(list) ==
    UNION { { calls[i].sort[j] : j \in 1 .. Len(calls[i].sort) } :
              i \in { k \in 1 .. Len(calls) :
                        calls[k].call = "zsort" /\ calls[k].list = list } }

\* The indices of the shapes created in a list and not dropped since.
Live(list) == { h.index : h \in { g \in issued \ dropped : g.tag = list } }

\* The sort key of a drawn shape.
Depth(i) == Distance(Point(calls[i].shape), xyz)

\* The vertex count recorded for a buffer, looked up in the table that owns it.
VertexCountOf(buffer) ==
    CASE buffer[1] = "models"    -> models[buffer[2] + 1].vertex_count
      [] buffer[1] = "gradients" -> gradients[buffer[2] + 1].vertex_count
      [] buffer[1] = "texcoords" -> texcoords[buffer[2] + 1].vertex_count

\* Every secondary buffer of a shape has as many vertices as its model.
Paired(shape) ==
    \A k \in 1 .. 2 :
        shape.buffers[k] /= None
            => VertexCountOf(shape.buffers[k][1]) = VertexCountOf(shape.vertex_buffer)

(***************************************************************************)
(* C1: after drop_shape(h) has completed, in every later update() frame    *)
(* the shape of h is neither among the indices handed to the depth sort    *)
(* nor the subject of a draw_shape call.                                   *)
(***************************************************************************)
C1_DroppedNeverSortedNorDrawn ==
    FrameDone =>
        \A h \in dropped :
            /\ h.index \notin SortedIndices(h.tag)
            /\ h.index \notin DrawnIndices(h.tag)

(***************************************************************************)
(* C2: in every update() frame, for the opaque and for the alpha list, the *)
(* set of shapes passed to the sort and the set of shapes draw_shape is    *)
(* called for are both exactly the shapes created in that list and not     *)
(* dropped.                                                                *)
(***************************************************************************)
C2_SortedAndDrawnAreLive ==
    FrameDone =>
        \A list \in ListTags :
            /\ SortedIndices(list) = Live(list)
            /\ DrawnIndices(list) = Live(list)

(***************************************************************************)
(* C3: a shape-creation call that pairs a model with a texcoords or        *)
(* gradient buffer of a different vertex count panics, leaving both        *)
(* collections and both index lists as they were and issuing no GPU call;  *)
(* so a call that does push a shape paired only buffers of the model's     *)
(* vertex count.                                                           *)
(***************************************************************************)
C3_MismatchFailsCleanly ==
    [][ op'.name \in PairingOps =>
            IF status' = "panicked"
            THEN /\ UNCHANGED << opaque_vec, alpha_vec, opaque_ind, alpha_ind >>
                 /\ calls' = << >>
                 /\ ret' = None
            ELSE /\ ret' /= None
                 /\ Paired(StoredAfter(ret'[1])) ]_vars

C3_Witness ==
    /\ status = "panicked"
    /\ op.name \in PairingOps
    /\ Len(opaque_vec) + Len(alpha_vec) > 0

(***************************************************************************)
(* C4: in every update() frame the opaque shapes are drawn in              *)
(* nondecreasing order of distance from the camera and the alpha shapes in *)
(* nonincreasing order.                                                    *)
(***************************************************************************)
C4_DrawnInDepthOrder ==
    FrameDone =>
        /\ \A i, j \in Draws("Opaque") : i < j => Depth(i) <= Depth(j)
        /\ \A i, j \in Draws("Alpha") : i < j => Depth(i) >= Depth(j)

(***************************************************************************)
(* C5: handle stability under drop.  A drop_shape leaves every other       *)
(* handle designating the same stored shape; once a shape has been         *)
(* dropped, transform(B, M) still sets the matrix of B and changes no      *)
(* other stored shape; and the next frame draws every shape that was not   *)
(* dropped with its own stored data.                                       *)
(***************************************************************************)
C5_HandleStableUnderDrop ==
    [][ /\ (op'.name = "drop_shape" /\ status' = "running") =>
              \A b \in issued \ { op'.shape } :
                  /\ b.index < Len(VecAfter(b.tag))
                  /\ StoredAfter(b) = StoredShape(b)
        /\ (op'.name = "transform" /\ dropped /= { }) =>
              /\ Len(opaque_vec') = Len(opaque_vec)
              /\ Len(alpha_vec') = Len(alpha_vec)
              /\ StoredAfter(op'.shape) =
                    [ StoredShape(op'.shape) EXCEPT !.transform = last_matrix'[op'.shape] ]
              /\ \A a \in issued \ { op'.shape } : StoredAfter(a) = StoredShape(a)
        /\ (op'.name = "update" /\ status' = "running" /\ dropped /= { }) =>
              \A b \in issued \ dropped :
                  \E i \in 1 .. Len(calls') :
                      /\ calls'[i].call = "draw_shape"
                      /\ calls'[i].list = b.tag
                      /\ calls'[i].index = b.index
                      /\ calls'[i].shape = StoredShape(b)
                      /\ calls'[i].gpu[1].val = StoredShape(b).transform ]_vars

C5_Witness ==
    /\ FrameDone
    /\ \E a \in dropped, b \in issued \ dropped :
          /\ a.tag = b.tag
          /\ a.index < b.index
          /\ StoredShape(b).transform \in MovedMatrices \ Matrices
          /\ StoredShape(a).transform \in Matrices \ MovedMatrices

(***************************************************************************)
(* C6: shape handles are never reused.  The handle a shape_* call returns  *)
(* is (list tag, number of shapes created in that list before), so the     *)
(* handles returned so far are as many as the creation calls, also after   *)
(* drops.                                                                  *)
(***************************************************************************)
C6_HandlesNeverReused ==
    /\ Cardinality(issued) = created.Opaque + created.Alpha
    /\ \A h \in issued : h.index < created[h.tag]
    /\ (status = "running" /\ op.name \in ShapeOps) =>
          /\ ret /= None
          /\ ret[1].index = created[ret[1].tag] - 1

C6_Witness ==
    /\ status = "running"
    /\ op.name \in ShapeOps
    /\ \E a \in dropped : a.tag = ret[1].tag /\ a.index < ret[1].index

(***************************************************************************)
(* C7: a successful shape_* call appends the new shape to exactly one      *)
(* list, the alpha list when blending is set or the call is shape_faded    *)
(* and the opaque list otherwise, leaves the other lists unchanged, and    *)
(* returns a handle tagged with that list.                                 *)
(***************************************************************************)
C7_OneListByBlending ==
    [][ (op'.name \in ShapeOps /\ status' = "running") =>
            LET tag == IF op'.name = "shape_faded" \/ op'.blending = Some(TRUE)
                       THEN "Alpha" ELSE "Opaque"
                other == IF tag = "Alpha" THEN "Opaque" ELSE "Alpha"
            IN /\ ret' /= None
               /\ ret'[1].tag = tag
               /\ Len(VecAfter(tag)) = Len(VecOf(tag)) + 1
               /\ SubSeq(VecAfter(tag), 1, Len(VecOf(tag))) = VecOf(tag)
               /\ IndAfter(tag) = Append(IndOf(tag), ret'[1].index)
               /\ ret'[1].index = Len(VecOf(tag))
               /\ VecAfter(other) = VecOf(other)
               /\ IndAfter(other) = IndOf(other)
               /\ gui_vec' = gui_vec ]_vars

C7_Witness ==
    /\ status = "running"
    /\ op.name = "shape_faded"
    /\ ret = Some(Alpha(Len(alpha_vec) - 1))
    /\ Len(opaque_vec) > 0

(***************************************************************************)
(* C8: in the frame that follows transform(h, M), with no other transform  *)
(* of h in between, the draw_shape call for the shape of h sets the        *)
(* model-transform uniform to M.                                           *)
(***************************************************************************)
C8_DrawUsesLastMatrix ==
    FrameDone =>
        \A h \in issued :
            /\ \E i \in Draws(h.tag) : calls[i].index = h.index
            /\ \A i \in Draws(h.tag) :
                  calls[i].index = h.index =>
                      calls[i].gpu[1] = [ call |-> "set_mat4", slot |-> "matrix_uniform",
                                          val |-> last_matrix[h] ]

C8_Witness ==
    /\ FrameDone
    /\ \E h \in issued :
          /\ last_matrix[h] \in MovedMatrices \ Matrices
          /\ \E i \in Draws(h.tag) :
                calls[i].index = h.index /\ calls[i].gpu[1].val = last_matrix[h]

(***************************************************************************)
(* C9: within every update() the passes come in a fixed order: depth       *)
(* testing enabled, all opaque draws, all alpha draws, depth testing       *)
(* disabled, all gui draws in insertion order, present last.  No opaque or *)
(* alpha draw happens with depth testing disabled and no gui draw with it  *)
(* enabled.                                                                *)
(***************************************************************************)
C9_PassOrder ==
    FrameDone =>
        /\ Cardinality(CallsNamed("enable", "DepthTest")) = 1
        /\ Cardinality(CallsNamed("disable", "DepthTest")) = 1
        /\ CallsNamed("swap", "context") = { Len(calls) }
        /\ \A en \in CallsNamed("enable", "DepthTest"),
              dis \in CallsNamed("disable", "DepthTest") :
              /\ en < dis
              /\ \A i \in Draws("Opaque") \cup Draws("Alpha") : en < i /\ i < dis
              /\ \A i \in Draws("Gui") : dis < i /\ i < Len(calls)
        /\ \A i \in Draws("Opaque"), j \in Draws("Alpha") : i < j
        /\ \A i, j \in Draws("Gui") : i < j => calls[i].index < calls[j].index
        /\ AllDraws = Draws("Opaque") \cup Draws("Alpha") \cup Draws("Gui")

C9_Witness ==
    /\ FrameDone
    /\ Draws("Opaque") /= { }
    /\ Draws("Alpha") /= { }

(***************************************************************************)
(* C10: in every update() the camera-enable uniform has_camera is set to 1 *)
(* on each of the six styles before the first draw_shape call of the       *)
(* frame.                                                                  *)
(***************************************************************************)
C10_CameraBeforeDraws ==
    FrameDone =>
        \A k \in StyleIds :
            \E i \in CallsNamed("set_int1", "has_camera") :
                /\ calls[i].style = k
                /\ calls[i].val = 1
                /\ \A j \in AllDraws : i < j

C10_Witness ==
    /\ FrameDone
    /\ AllDraws /= { }
    /\ Cardinality({ calls[i].style : i \in AllDraws }) > 1

(***************************************************************************)
(* C11: a drawn shape gets one triangle-fan draw call per range of the fan *)
(* list of the model it was created from, in fan-list order with that      *)
(* range, after the position attribute was bound to that model's vertex    *)
(* buffer, and with the program of the style of the shape_* call that made *)
(* it; a single solid opaque shape on a one-range model gives exactly one  *)
(* draw call in the frame, with the solid style's program.                 *)
(***************************************************************************)
\* The style each creation call stands for.
StyleOfOp(name) ==
    CASE name = "shape_gradient" -> STYLE_GRADIENT
      [] name = "shape_texture"  -> STYLE_TEXTURE
      [] name = "shape_faded"    -> STYLE_FADED
      [] name = "shape_tinted"   -> STYLE_TINTED
      [] name = "shape_solid"    -> STYLE_SOLID
      [] name = "shape_complex"  -> STYLE_COMPLEX

\* The program each creation call stands for.
ProgramOfOp(name) ==
    CASE name = "shape_gradient" -> ShaderGradient
      [] name = "shape_texture"  -> ShaderTexture
      [] name = "shape_faded"    -> ShaderFaded
      [] name = "shape_tinted"   -> ShaderTinted
      [] name = "shape_solid"    -> ShaderSolid
      [] name = "shape_complex"  -> ShaderComplex

IsFanCall(c) == c.call = "draw_arrays"

IsPositionCall(c) == c.call = "vertex_data" /\ c.slot = "position"

\* All triangle-fan draw calls of the frame, over every draw_shape.
FrameFanCalls ==
    { << i, k >> \in AllDraws \X (1 .. 16) :
        k <= Len(calls[i].gpu) /\ IsFanCall(calls[i].gpu[k]) }

C11_OneFanCallPerRange ==
    FrameDone =>
        /\ \A h \in issued :
              \A i \in Draws(h.tag) :
                  calls[i].index = h.index =>
                      LET gpu == calls[i].gpu
                          model == models[origin[h].model + 1]
                          fanCalls == SelectSeq(gpu, IsFanCall)
                          n == Len(gpu) - Len(fanCalls)
                      IN /\ Len(fanCalls) = Len(model.fans)
                         /\ \A k \in 1 .. Len(fanCalls) :
                               /\ gpu[n + k] = fanCalls[k]
                               /\ fanCalls[k].val = model.fans[k]
                               /\ fanCalls[k].program = ProgramOfOp(origin[h].name)
                         /\ IsPositionCall(gpu[n])
                         /\ gpu[n].val = model.vertex_buffer
                         /\ Len(SelectSeq(gpu, IsPositionCall)) = 1
        /\ \A h \in issued :
              (/\ issued = { h }
               /\ h.tag = "Opaque"
               /\ origin[h].name = "shape_solid"
               /\ Len(models[origin[h].model + 1].fans) = 1)
                  => \E c \in FrameFanCalls :
                        /\ FrameFanCalls = { c }
                        /\ calls[c[1]].gpu[c[2]].program = ShaderSolid
                        /\ styles[STYLE_SOLID].shader = ShaderSolid

C11_Witness ==
    /\ FrameDone
    /\ \E h \in issued :
          /\ Len(models[origin[h].model + 1].fans) = 2
          /\ \E i \in Draws(h.tag) :
                calls[i].index = h.index /\ Len(SelectSeq(calls[i].gpu, IsFanCall)) = 2

(***************************************************************************)
(* C12: drop_shape is idempotent: a second drop_shape with a handle that   *)
(* was already dropped completes without failure and leaves both index     *)
(* lists and both backing collections as the first drop left them.         *)
(***************************************************************************)
C12_SecondDropIsNoOp ==
    [][ (op'.name = "drop_shape" /\ op'.shape \in dropped) =>
            /\ status' = "running"
            /\ UNCHANGED << opaque_ind, alpha_ind, opaque_vec, alpha_vec >> ]_vars

(***************************************************************************)
(* Resource tables over a run.                                             *)
(***************************************************************************)
TableNames == << "model", "texture", "gradient", "texcoords" >>

TableTags == << "Model", "Texture", "Gradient", "TexCoords" >>

TablesNow == << models, textures, gradients, texcoords >>

TablesAfter == << models', textures', gradients', texcoords' >>

\* C13: in every step each resource table keeps all its entries in place and
\* never shrinks; the add call of a table appends exactly one entry and
\* returns the index that entry has, which is the number of earlier add
\* calls on that table; every other operation leaves the table as it was.
C13_TablesAppendOnly ==
    [][ \A T \in 1 .. 4 :
          LET old == TablesNow[T]
              new == TablesAfter[T]
          IN /\ Len(new) >= Len(old)
             /\ SubSeq(new, 1, Len(old)) = old
             /\ IF op'.name = TableNames[T]
                THEN /\ Len(new) = Len(old) + 1
                     /\ ret' = Some([ tag |-> TableTags[T], index |-> Len(old) ])
                ELSE new = old ]_vars

\* The second gradient has been handed index 1 after a drop, a texture
\* replacement and a resize took place, with two models and two textures.
C13_Witness ==
    /\ op.name = "gradient"
    /\ ret = Some([ tag |-> "Gradient", index |-> 1 ])
    /\ Len(models) = 2
    /\ Len(textures) = 2
    /\ dropped /= {}
    /\ viewport /= InitialSize
    /\ images[BufferNew("textures", 0)].graphic = "img2"

(***************************************************************************)
(* What an operation leaves alone.                                         *)
(***************************************************************************)
\* C14: a transform step changes the transform field of the stored shape its
\* handle designates and nothing else: both index lists, the gui collection,
\* the four resource tables, the texture contents and the screen data stay as
\* they were, both backing collections keep their length, every other stored
\* shape is the same, and the designated shape keeps every other field.
C14_TransformTouchesOneField ==
    [][ op'.name = "transform" =>
          /\ UNCHANGED << opaque_ind, alpha_ind, gui_vec, models, textures, gradients,
                          texcoords, images, xyz, ar, projection, viewport >>
          /\ Len(opaque_vec') = Len(opaque_vec)
          /\ Len(alpha_vec') = Len(alpha_vec)
          /\ \A tag \in ListTags :
               \A i \in 1 .. Len(VecOf(tag)) :
                  IF tag = op'.shape.tag /\ i = op'.shape.index + 1
                  THEN /\ DOMAIN VecAfter(tag)[i] = DOMAIN VecOf(tag)[i]
                       /\ \A f \in DOMAIN VecOf(tag)[i] \ { "transform" } :
                             VecAfter(tag)[i][f] = VecOf(tag)[i][f]
                       /\ VecAfter(tag)[i].transform = last_matrix'[op'.shape]
                  ELSE VecAfter(tag)[i] = VecOf(tag)[i] ]_vars

\* A shape with fog has just been moved while a second shape of the same
\* collection holds another matrix.
C14_Witness ==
    /\ op.name = "transform"
    /\ StoredShape(op.shape).has_fog
    /\ StoredShape(op.shape).transform = << 0, 0, 5 >>
    /\ \E b \in issued \ { op.shape } :
          /\ b.tag = op.shape.tag
          /\ StoredShape(b).transform /= << 0, 0, 5 >>

\* C15: a resize step leaves the three shape collections, both index lists,
\* the four resource tables, the texture contents and the camera position as
\* they were (the styles are fixed at construction); the only GPU call it
\* makes is the one that sets the viewport.
C15_ResizeTouchesScreenOnly ==
    [][ op'.name = "resize" =>
          /\ UNCHANGED << opaque_vec, alpha_vec, gui_vec, opaque_ind, alpha_ind,
                          models, textures, gradients, texcoords, images, xyz >>
          /\ status' = status
          /\ Len(calls') = 1
          /\ calls'[1].call = "viewport" ]_vars

\* The window has just been resized to another ratio while live and dropped
\* shapes and a texture exist.
C15_Witness ==
    /\ op.name = "resize"
    /\ ar /= AspectRatio(InitialSize)
    /\ opaque_ind \o alpha_ind /= << >>
    /\ dropped /= { }
    /\ textures /= << >>

(***************************************************************************)
(* The screen data.                                                        *)
(***************************************************************************)
\* C16: after resize((w, h)) the stored aspect ratio is w / h, the viewport
\* is (w, h), and the projection is the one built from that ratio and the
\* field of view the constructor used; at all times the projection is the one
\* built from the stored ratio and that field of view.
C16_ResizeRatio ==
    /\ projection = Projection(ar, FieldOfView)
    /\ op.name = "resize" =>
          /\ ar[1] * op.wh[2] = ar[2] * op.wh[1]
          /\ ar[2] > 0
          /\ viewport = op.wh
          /\ projection.ar[1] * op.wh[2] = projection.ar[2] * op.wh[1]

\* From 800 x 600 the window went to 600 x 800: the ratio is now 3 / 4.
C16_Witness ==
    /\ op.name = "resize"
    /\ op.wh = << 600, 800 >>
    /\ ar = << 3, 4 >>
    /\ viewport = << 600, 800 >>

(***************************************************************************)
(* Texture contents.                                                       *)
(***************************************************************************)
\* The texture objects the table holds.
TableTextures == { textures[k].t : k \in 1 .. Len(textures) }

\* C17: a set_texture step on a handle leaves the textures table as it was
\* (same length, same entries, so the handle designates the same entry) and
\* leaves every stored shape as it was; it replaces the content of the texture
\* object of that entry and of no other. The content of a texture object
\* changes in no step other than set_texture. In a finished frame every
\* textured draw binds the texture object its shape holds, which is an object
\* of the table, so what it shows is the content last written to that entry.
C17_SetTextureInPlace ==
    [][ /\ op'.name = "set_texture" =>
              LET t == textures[op'.texture + 1].t
              IN /\ textures' = textures
                 /\ UNCHANGED << opaque_vec, alpha_vec, gui_vec, opaque_ind, alpha_ind >>
                 /\ DOMAIN images' = DOMAIN images
                 /\ images'[t] = calls'[1].val
                 /\ calls'[1].slot = t
                 /\ \A u \in DOMAIN images \ { t } : images'[u] = images[u]
        /\ op'.name /= "set_texture" =>
              \A u \in DOMAIN images : images'[u] = images[u]
        /\ (op'.name = "update" /\ status' = "running") =>
              \A i \in 1 .. Len(calls') :
                 (calls'[i].call = "draw_shape" /\ styles[calls'[i].style].texpos) =>
                    LET sh == calls'[i].shape
                        binds == { j \in 1 .. Len(calls'[i].gpu) :
                                     calls'[i].gpu[j].call = "bind_texture" }
                    IN /\ sh = VecOf(calls'[i].list)[calls'[i].index + 1]
                       /\ binds /= { }
                       /\ \A j \in binds :
                             /\ calls'[i].gpu[j].val = sh.texture[1]
                             /\ calls'[i].gpu[j].val \in TableTextures
                             /\ calls'[i].gpu[j].val \in DOMAIN images ]_vars

\* A frame has just drawn a textured shape whose texture now holds the
\* replacement image.
C17_Witness ==
    /\ FrameDone
    /\ \E i \in AllDraws :
          /\ calls[i].shape.texture /= None
          /\ images[calls[i].shape.texture[1]].graphic = "img2"
          /\ \E j \in 1 .. Len(calls[i].gpu) :
                /\ calls[i].gpu[j].call = "bind_texture"
                /\ calls[i].gpu[j].val = calls[i].shape.texture[1]

(***************************************************************************)
(* What a shape holds of its model.                                        *)
(***************************************************************************)
AddOps == { "model", "texture", "gradient", "texcoords" }

\* C18: a step that adds a model, a texture, a gradient or texcoords leaves
\* every stored shape as it was, so its vertex buffer, fan list and secondary
\* buffers stay the ones captured at creation. In a finished frame, however
\* many models were added since, each draw binds the position attribute to
\* the vertex buffer stored in the shape and draws the fans stored in the
\* shape, and these are the buffer and fans of the model the shape was
\* created from; no other model buffer appears among its GPU calls.
C18_ShapeKeepsCapturedData ==
    [][ /\ op'.name \in AddOps =>
              UNCHANGED << opaque_vec, alpha_vec, gui_vec >>
        /\ (op'.name = "update" /\ status' = "running") =>
              \A i \in 1 .. Len(calls') :
                 calls'[i].call = "draw_shape" =>
                    LET sh  == calls'[i].shape
                        h   == [ tag |-> calls'[i].list, index |-> calls'[i].index ]
                        gpu == calls'[i].gpu
                    IN /\ sh = StoredShape(h)
                       /\ sh.vertex_buffer = models[origin[h].model + 1].vertex_buffer
                       /\ sh.fans = models[origin[h].model + 1].fans
                       /\ \A j \in 1 .. Len(gpu) :
                             /\ IsPositionCall(gpu[j]) => gpu[j].val = sh.vertex_buffer
                             /\ gpu[j].call = "vertex_data" =>
                                   gpu[j].val \in { sh.vertex_buffer, sh.buffers[1][1] }
                       /\ SelectSeq(gpu, IsFanCall) =
                             [ k \in 1 .. Len(sh.fans) |->
                                 [ call |-> "draw_arrays", slot |-> "TriangleFan",
                                   val |-> sh.fans[k],
                                   program |-> styles[sh.style].shader ] ] ]_vars

\* A second model with other fans has just been added while a live shape made
\* from the first model exists.
C18_Witness ==
    /\ op.name = "model"
    /\ Len(models) = 2
    /\ \E h \in issued \ dropped :
          /\ origin[h].model = 0
          /\ StoredShape(h).vertex_buffer = models[1].vertex_buffer
          /\ StoredShape(h).fans /= models[2].fans

(***************************************************************************)
(* The calls of one draw_shape.                                            *)
(***************************************************************************)
\* Positions in the GPU calls of a draw that touch a given slot.
SlotCalls(gpu, slot) == { j \in 1 .. Len(gpu) : gpu[j].slot = slot }

C20_OptionalSlotsFollowStyle ==
    FrameDone =>
        \A i \in AllDraws :
            LET st  == styles[calls[i].style]
                sh  == calls[i].shape
                gpu == calls[i].gpu
            IN /\ calls[i].style = sh.style
               /\ (SlotCalls(gpu, "texpos") /= { }) <=> st.texpos
               /\ (SlotCalls(gpu, "texture") /= { }) <=> st.texpos
               /\ (SlotCalls(gpu, "acolor") /= { }) <=> st.acolor
               /\ (SlotCalls(gpu, "alpha") /= { }) <=> st.alpha
               /\ (SlotCalls(gpu, "color") /= { }) <=> st.color
               /\ \E j \in 1 .. Len(gpu) :
                     /\ SlotCalls(gpu, "matrix_uniform") = { j }
                     /\ gpu[j].call = "set_mat4"
               /\ \E j \in 1 .. Len(gpu) :
                     /\ SlotCalls(gpu, "has_fog") = { j }
                     /\ gpu[j].call = "set_int1"
                     /\ gpu[j].val = IF sh.has_fog THEN 1 ELSE 0
               /\ \E j \in 1 .. Len(gpu) :
                     /\ SlotCalls(gpu, "position") = { j }
                     /\ gpu[j].call = "vertex_data"

\* A frame has just drawn a solid shape without fog and a faded shape.
C20_Witness ==
    /\ FrameDone
    /\ \E i \in AllDraws :
          calls[i].shape.style = STYLE_SOLID /\ ~calls[i].shape.has_fog
    /\ \E i \in AllDraws : calls[i].shape.style = STYLE_FADED

(***************************************************************************)
(* Vertex data handles.                                                    *)
(***************************************************************************)
\* C21: a step that makes a vertex data handle issues an enable call for the
\* slot exactly when the lookup answered something other than -1, and then
\* for that slot only, so the enabled slots grow by that slot or not at all;
\* is_none answers true exactly when the lookup of that handle answered -1;
\* and the location a handle holds is the lookup's answer in every state,
\* through every later set of the handle.
C21_EnabledIffFound ==
    [][ /\ op'.name = "vertex_data_new" =>
              LET a == lookup'[Len(lookup')]
                  enables == { i \in 1 .. Len(calls') : calls'[i].call = "enable_vdata" }
              IN /\ (enables /= { }) <=> (a /= -1)
                 /\ Cardinality(enables) <= 1
                 /\ \A i \in enables : calls'[i].val = << 0, a >>
                 /\ enabled' = IF a /= -1 THEN enabled \cup { << 0, a >> } ELSE enabled
        /\ op'.name = "is_none" =>
              ret' = Some(lookup[op'.handle + 1] = -1)
        /\ Len(vdata') = Len(lookup')
        /\ \A h \in 1 .. Len(vdata) :
              /\ vdata'[h].index = vdata[h].index
              /\ vdata'[h].index = lookup[h] ]_vars

\* is_none has just answered true for a handle that was set from a buffer,
\* while another handle holds a slot that is enabled.
C21_Witness ==
    /\ op.name = "is_none"
    /\ ret = Some(TRUE)
    /\ vdata[op.handle + 1].buffer /= None
    /\ \E h \in 1 .. Len(vdata) : vdata[h].index /= -1 /\ << 0, vdata[h].index >> \in enabled

(***************************************************************************)
(* Construction.                                                           *)
(***************************************************************************)
\* C22: right after new(), the result is Ok exactly when an OpenGL builder
\* was found and the window connection is Xcb or Windows. In every other
\* case the result is an error value and there is no Display: no operation
\* ever runs afterwards. With Ok the Display is running and its three shape
\* collections, two index lists and four resource tables are empty.
C22_NewFailsOrStartsEmpty ==
    /\ op.name = "new" =>
          /\ ret = Some(Ok) <=>
                (op.builder /\ op.connection \in { Some("Xcb"), Some("Windows") })
          /\ ret /= Some(Ok) =>
                /\ ret[1].tag = "Err"
                /\ status = "error"
          /\ ret = Some(Ok) =>
                /\ status = "running"
                /\ opaque_vec = << >> /\ alpha_vec = << >> /\ gui_vec = << >>
                /\ opaque_ind = << >> /\ alpha_ind = << >>
                /\ models = << >> /\ textures = << >>
                /\ gradients = << >> /\ texcoords = << >>
    /\ status = "error" => op.name = "new"
    /\ op.name \notin { "new", "none" } => status \in { "running", "panicked" }

\* new() has just refused a Wayland connection although a builder was found.
C22_Witness ==
    /\ op.name = "new"
    /\ op.builder
    /\ op.connection = Some("Wayland")
    /\ ret = Some(Err("OpenGL support on Wayland is WIP"))
    /\ status = "error"

(***************************************************************************)
(* Frames of input.                                                        *)
(***************************************************************************)
\* How often x occurs in a sequence.
Count(seq, x) == Len(SelectSeq(seq, LAMBDA y : y = x))

\* What Window::update handed out since the last get_events is the events
\* that get_events gathered, each as often as gathered, and then one None.
FrameHandedOut ==
    /\ Len(handed) = Len(gathered) + 1
    /\ handed[Len(handed)] = None
    /\ Count(handed, None) = 1
    /\ \A e \in Events : Count(handed, Some(e)) = Count(gathered, e)

\* C23 as stated: a call made on a non-empty queue returns an event of the
\* queue and does not poll; a call polls only when the queue is empty and the
\* None that ends the frame has been returned before; and when a poll follows
\* an earlier poll, what was returned in between is every event of the
\* earlier poll and then exactly one None.
C23_PollOnlyAfterNone ==
    [][ op'.name = "input" =>
          /\ queue /= << >> =>
                /\ ret' /= None
                /\ \E k \in 1 .. Len(queue) : ret' = Some(queue[k])
                /\ Len(queue') = Len(queue) - 1
                /\ op'.polls = 0
          /\ op'.polls > 0 =>
                /\ queue = << >>
                /\ handed /= << >>
                /\ handed[Len(handed)] = None
          /\ (op'.polls > 0 /\ polled) => FrameHandedOut
          /\ Count(handed', None) <= 1 ]_vars

\* C23, amended: as above, except that the first poll of all happens in the
\* first call, before any None was returned; every later poll happens in a
\* call made after the None that ends the frame was returned.
C23_PollsAndNones ==
    [][ op'.name = "input" =>
          /\ queue /= << >> =>
                /\ ret' /= None
                /\ \E k \in 1 .. Len(queue) : ret' = Some(queue[k])
                /\ Len(queue') = Len(queue) - 1
                /\ op'.polls = 0
          /\ op'.polls > 0 =>
                /\ queue = << >>
                /\ polled => (handed /= << >> /\ handed[Len(handed)] = None)
                /\ ~polled => handed = << >>
          /\ (op'.polls > 0 /\ polled) => FrameHandedOut
          /\ Count(handed', None) <= 1 ]_vars

\* A frame is over: the three events of the last poll were handed out, then
\* None, and the next call will poll again.
C23_Witness ==
    /\ op.name = "input"
    /\ polled
    /\ Len(gathered) = 3
    /\ FrameHandedOut
    /\ queue = << >>
    /\ ~reset

(***************************************************************************)
(* The index lists across a frame.                                         *)
(***************************************************************************)
\* The sort key of the shape stored at index x of a list.
ShapeDepth(tag, x) == Distance(Point(VecOf(tag)[x + 1]), xyz)

\* Index a stands before index b in a list without duplicates.
Before(ind, a, b) ==
    \E i, j \in 1 .. Len(ind) : i < j /\ ind[i] = a /\ ind[j] = b

\* One sequence holds the elements of the other, each as often.
Permutation(s, t) ==
    /\ Len(s) = Len(t)
    /\ \A x \in 0 .. MaxShapes : Count(s, x) = Count(t, x)

\* C24: an update() leaves each index list a permutation of what it was, the
\* opaque list in nondecreasing distance from the camera and the alpha list
\* in nonincreasing distance, and two indices whose shapes are equally far
\* keep the order they had before the call.
C24_SortIsStablePermutation ==
    [][ (op'.name = "update" /\ status' = "running") =>
          /\ Permutation(opaque_ind', opaque_ind)
          /\ Permutation(alpha_ind', alpha_ind)
          /\ \A i, j \in 1 .. Len(opaque_ind') :
                i < j => ShapeDepth("Opaque", opaque_ind'[i])
                            <= ShapeDepth("Opaque", opaque_ind'[j])
          /\ \A i, j \in 1 .. Len(alpha_ind') :
                i < j => ShapeDepth("Alpha", alpha_ind'[i])
                            >= ShapeDepth("Alpha", alpha_ind'[j])
          /\ \A tag \in ListTags :
                \A a, b \in 0 .. MaxShapes :
                   (/\ Before(IndOf(tag), a, b)
                    /\ ShapeDepth(tag, a) = ShapeDepth(tag, b))
                      => Before(IndAfter(tag), a, b) ]_vars

\* A frame has left a list with index 1 before index 0 although the two shapes
\* are equally far from the camera: the order an earlier frame gave them.
C24_Witness ==
    \/ /\ FrameDone
       /\ opaque_ind = << 1, 0 >>
       /\ ShapeDepth("Opaque", 0) = ShapeDepth("Opaque", 1)
    \/ /\ FrameDone
       /\ alpha_ind = << 1, 0 >>
       /\ ShapeDepth("Alpha", 0) = ShapeDepth("Alpha", 1)

(***************************************************************************)
(* Size reports.                                                           *)
(***************************************************************************)
\* C25: a resize(wh, d) step with *wh different from d stores d in *wh and
\* submits Resize once; with *wh equal to d it leaves *wh and the queue as
\* they were and submits nothing. So a resize that repeats the d of the
\* resize just before it submits nothing.
C25_ResizeOnlyOnChange ==
    [][ op'.name = "input_resize" =>
          /\ IF os_wh /= op'.d
             THEN /\ os_wh' = op'.d
                  /\ Len(calls') = 1
                  /\ calls'[1] = [ call |-> "input", val |-> "Resize" ]
             ELSE /\ os_wh' = os_wh
                  /\ queue' = queue
                  /\ calls' = << >>
          /\ (op.name = "input_resize" /\ op.d = op'.d) => calls' = << >> ]_vars

\* The size changed once and the same size was then reported again: the
\* queue holds the one Resize of the change.
C25_Witness ==
    /\ op.name = "input_resize"
    /\ calls = << >>
    /\ os_wh = op.d
    /\ os_wh /= InitialSize
    /\ queue = << "Resize" >>

(***************************************************************************)
(* Shape of the index lists.                                               *)
(***************************************************************************)
\* The handles of a list whose drop_shape completed.
DroppedFrom(tag) == { h \in dropped : h.tag = tag }

\* C26: in every state each index list holds no index twice, every index it
\* holds is below the length of the list's backing collection, and its length
\* is the number of shapes created in that list less the number dropped from
\* it by a drop_shape that completed.
C26_IndexListsWellFormed ==
    \A tag \in ListTags :
        LET ind == IndOf(tag)
        IN /\ \A i, j \in 1 .. Len(ind) : ind[i] = ind[j] => i = j
           /\ \A i \in 1 .. Len(ind) : ind[i] >= 0 /\ ind[i] < Len(VecOf(tag))
           /\ Len(ind) = created[tag] - Cardinality(DroppedFrom(tag))
           /\ Len(VecOf(tag)) = created[tag]

\* Two shapes were created and one of them dropped; a second drop of that
\* shape has just failed, and one index is left in the lists.
C26_Witness ==
    /\ created.Opaque + created.Alpha = 2
    /\ dropped /= { }
    /\ status = "panicked"
    /\ op.name = "drop_shape"
    /\ Len(opaque_ind) + Len(alpha_ind) = 1

(***************************************************************************)
(* Shapes and the slots of their style.                                    *)
(***************************************************************************)
\* Every shape stored in any of the three collections.
StoredShapes ==
    { opaque_vec[i] : i \in 1 .. Len(opaque_vec) }
        \cup { alpha_vec[i] : i \in 1 .. Len(alpha_vec) }
        \cup { gui_vec[i] : i \in 1 .. Len(gui_vec) }

\* Each style declares the slots of its kind and no other.
SlotsAsKinds ==
    \A k \in StyleIds :
        /\ styles[k].texpos <=> k \in { STYLE_TEXTURE, STYLE_FADED, STYLE_TINTED, STYLE_COMPLEX }
        /\ styles[k].acolor <=> k \in { STYLE_GRADIENT, STYLE_COMPLEX }
        /\ styles[k].alpha <=> k = STYLE_FADED
        /\ styles[k].color <=> k \in { STYLE_SOLID, STYLE_TINTED }

\* C27: with each style declaring the slots of its kind, every stored shape
\* has what its style makes draw_shape read: the first secondary buffer and a
\* texture when the style has texture coordinates, the first secondary buffer
\* when it has per-vertex colour, an alpha when it has alpha, a colour when it
\* has colour. So no frame stops in draw_shape.
C27_DrawShapeFindsItsFields ==
    SlotsAsKinds =>
        /\ \A sh \in StoredShapes :
              LET st == styles[sh.style]
              IN /\ st.texpos => (sh.buffers[1] /= None /\ sh.texture /= None)
                 /\ st.acolor => sh.buffers[1] /= None
                 /\ st.alpha => sh.alpha /= None
                 /\ st.color => sh.color /= None
        /\ op.name = "update" => status = "running"

\* A frame has drawn a faded and a complex shape to its end.
C27_Witness ==
    /\ FrameDone
    /\ \E i \in AllDraws : calls[i].shape.style = STYLE_FADED
    /\ \E i \in AllDraws : calls[i].shape.style = STYLE_COMPLEX
    /\ CallsNamed("swap", "context") /= { }

(***************************************************************************)
(* The styles array.                                                       *)
(***************************************************************************)
\* C28: position k of Display.styles holds the style built from the shader
\* pair of the kind whose STYLE_* constant is k; every stored shape carries
\* the constant of the call that created it; and in a finished frame each
\* draw uses styles[shape.style], so its fans are drawn with the program of
\* the creating call's kind.
C28_StylesIndexedByConstant ==
    /\ styles[STYLE_GRADIENT].shader = ShaderGradient
    /\ styles[STYLE_TEXTURE].shader = ShaderTexture
    /\ styles[STYLE_FADED].shader = ShaderFaded
    /\ styles[STYLE_TINTED].shader = ShaderTinted
    /\ styles[STYLE_SOLID].shader = ShaderSolid
    /\ styles[STYLE_COMPLEX].shader = ShaderComplex
    /\ STYLE_GRADIENT = 0 /\ STYLE_TEXTURE = 1 /\ STYLE_FADED = 2
    /\ STYLE_TINTED = 3 /\ STYLE_SOLID = 4 /\ STYLE_COMPLEX = 5
    /\ \A h \in issued :
          /\ StoredShape(h).style = StyleOfOp(origin[h].name)
          /\ styles[StoredShape(h).style].shader = ProgramOfOp(origin[h].name)
    /\ FrameDone =>
          \A i \in AllDraws :
              LET h == [ tag |-> calls[i].list, index |-> calls[i].index ]
              IN /\ calls[i].style = calls[i].shape.style
                 /\ \A j \in 1 .. Len(calls[i].gpu) :
                       IsFanCall(calls[i].gpu[j]) =>
                          calls[i].gpu[j].program = ProgramOfOp(origin[h].name)

\* A frame has drawn a solid shape and a tinted shape.
C28_Witness ==
    /\ FrameDone
    /\ \E h \in issued :
          /\ origin[h].name = "shape_solid"
          /\ \E i \in Draws(h.tag) : calls[i].index = h.index
    /\ \E h \in issued :
          /\ origin[h].name = "shape_tinted"
          /\ \E i \in Draws(h.tag) : calls[i].index = h.index

(***************************************************************************)
(* The gui list.                                                           *)
(***************************************************************************)
\* C29: the gui draw list is empty in every reachable state; every handle
\* ever issued, and every handle just returned, designates the opaque or
\* the alpha list; and in a finished frame the overlay pass makes no draw
\* call: switching depth testing off is directly followed by the swap.
C29_GuiListStaysEmpty ==
    /\ gui_vec = << >>
    /\ \A h \in issued : h.tag \in ListTags
    /\ (op.name \in ShapeOps /\ ret /= None) => ret[1].tag \in ListTags
    /\ FrameDone =>
          /\ Draws("Gui") = { }
          /\ AllDraws = Draws("Opaque") \cup Draws("Alpha")
          /\ \E dis \in CallsNamed("disable", "DepthTest") :
                /\ dis + 1 = Len(calls)
                /\ calls[dis + 1].call = "swap"

\* A frame drew a shape of each of the two other lists and still made no
\* overlay draw.
C29_Witness ==
    /\ FrameDone
    /\ Draws("Opaque") /= { }
    /\ Draws("Alpha") /= { }
    /\ Draws("Gui") = { }
    /\ \E h \in issued : h.tag = "Alpha"

(***************************************************************************)
(* What update() leaves alone.                                             *)
(***************************************************************************)
IndexSet(ind) == { ind[i] : i \in 1 .. Len(ind) }

\* C30: an update() step leaves the stored shapes of the three lists and the
\* four resource tables as they were, and each index list holds the same
\* indices, each as often as before; only their order may differ.
C30_UpdateKeepsScene ==
    [][ op'.name = "update" =>
            /\ opaque_vec' = opaque_vec
            /\ alpha_vec' = alpha_vec
            /\ gui_vec' = gui_vec
            /\ models' = models
            /\ texcoords' = texcoords
            /\ gradients' = gradients
            /\ textures' = textures
            /\ IndexSet(opaque_ind') = IndexSet(opaque_ind)
            /\ IndexSet(alpha_ind') = IndexSet(alpha_ind)
            /\ Permutation(opaque_ind, opaque_ind')
            /\ Permutation(alpha_ind, alpha_ind') ]_vars

\* A frame whose sort changed the order of a two-entry alpha list, with an
\* entry in the model table.
C30_Witness ==
    /\ FrameDone
    /\ Len(alpha_ind) = 2
    /\ \E i \in 1 .. Len(calls) :
          /\ calls[i].call = "zsort"
          /\ calls[i].list = "Alpha"
          /\ calls[i].sort /= alpha_ind
    /\ Len(models) > 0

(***************************************************************************)
(* The depth of Window::update.                                            *)
(***************************************************************************)
\* C32: every Window::update() returns, at call depth 1 without polling or
\* at call depth 2 after exactly one get_events; after the poll the nested
\* call returns the event it popped from what was gathered, or, when nothing
\* was gathered, clears reset and returns None.
C32_UpdateReturnsAtDepthTwo ==
    op.name = "input" =>
        /\ status = "running"
        /\ op.depth \in { 1, 2 }
        /\ op.polls = op.depth - 1
        /\ Len(calls) = op.polls
        /\ op.polls = 1 =>
              IF gathered = << >>
              THEN ret = None /\ reset = FALSE
              ELSE ret = Some(gathered[Len(gathered)]) /\ reset = TRUE

\* An update() polled, gathered nothing, and its nested call returned None.
C32_Witness ==
    /\ op.name = "input"
    /\ op.depth = 2
    /\ op.polls = 1
    /\ gathered = << >>
    /\ ret = None
    /\ status = "running"

(***************************************************************************)
(* The order in which events are handed out.                               *)
(***************************************************************************)
\* C33: the events one get_events gathered, e1 .. en in the order they were
\* appended, are handed out by the following Window::update() calls last
\* first, en .. e1, and after them comes None.
C33_HandedOutInReverse ==
    polled =>
        /\ Len(handed) <= Len(gathered) + 1
        /\ \A i \in 1 .. Len(handed) :
              handed[i] = IF i <= Len(gathered)
                          THEN Some(gathered[Len(gathered) - i + 1])
                          ELSE None
        /\ Len(queue) = Len(gathered) - Len(SelectSeq(handed, LAMBDA x : x /= None))
        /\ queue = SubSeq(gathered, 1, Len(queue))

\* Three different events were gathered and have all been handed out, the
\* last one first, and then None.
C33_Witness ==
    /\ gathered = << "Resize", "Exit", "Pause" >>
    /\ handed = << Some("Pause"), Some("Exit"), Some("Resize"), None >>
    /\ queue = << >>

(***************************************************************************)
(* The camera argument.                                                    *)
(***************************************************************************)
\* Whether a shape_* call with arguments a stops at a vertex-count check.
ArgsMismatch(name, a) ==
    CASE name = "shape_solid" -> FALSE
      [] name = "shape_gradient" ->
             models[a.model + 1].vertex_count /= gradients[a.colors + 1].vertex_count
      [] name = "shape_complex" ->
             \/ models[a.model + 1].vertex_count /= texcoords[a.tc + 1].vertex_count
             \/ models[a.model + 1].vertex_count /= gradients[a.tints + 1].vertex_count
      [] OTHER ->
             models[a.model + 1].vertex_count /= texcoords[a.tc + 1].vertex_count

\* The list a shape_* call with arguments a appends to.
ArgsList(name, a) ==
    IF name = "shape_faded" THEN "Alpha"
    ELSE IF a.blending THEN "Alpha" ELSE "Opaque"

\* The shape a shape_* call stores, as a function of the arguments other
\* than camera.
ArgsShape(name, a) ==
    [ style         |-> StyleOfOp(name),
      buffers       |->
          CASE name = "shape_solid" -> << None, None >>
            [] name = "shape_gradient" ->
                   << Some(gradients[a.colors + 1].vertex_buffer), None >>
            [] name = "shape_complex" ->
                   << Some(texcoords[a.tc + 1].vertex_buffer),
                      Some(gradients[a.tints + 1].vertex_buffer) >>
            [] OTHER -> << Some(texcoords[a.tc + 1].vertex_buffer), None >>,
      has_fog       |-> a.fog,
      alpha         |-> IF name = "shape_faded" THEN Some(a.alpha) ELSE None,
      color         |-> CASE name = "shape_solid" -> Some(a.color)
                          [] name = "shape_tinted" -> Some(a.tint)
                          [] OTHER -> None,
      transform     |-> a.transform,
      texture       |-> IF name \in { "shape_solid", "shape_gradient" } THEN None
                        ELSE Some(textures[a.texture + 1].t),
      vertex_buffer |-> models[a.model + 1].vertex_buffer,
      fans          |-> models[a.model + 1].fans ]

\* C31: what a shape_* call does is a function of the state it starts in and
\* of its arguments other than camera: whether it panics, the list it
\* appends to, every field of the shape it stores, the handle it returns
\* and everything it leaves alone; and a frame draws the stored shapes, so
\* two runs that differ only in camera flags stay in the same renderer
\* state, return the same handles and issue the same GPU calls.
C31_CameraHasNoEffect ==
    [][ /\ op'.name \in ShapeOps =>
            LET name == op'.name
                a == op'.args
            IN /\ UNCHANGED << tables, screen, images, gui_vec >>
               /\ calls' = << >>
               /\ IF ArgsMismatch(name, a)
                  THEN /\ status' = "panicked"
                       /\ ret' = None
                       /\ UNCHANGED lists
                  ELSE LET tag == ArgsList(name, a)
                           other == IF tag = "Alpha" THEN "Opaque" ELSE "Alpha"
                       IN /\ status' = "running"
                          /\ ret' = Some([ tag |-> tag, index |-> Len(VecOf(tag)) ])
                          /\ VecAfter(tag) = Append(VecOf(tag), ArgsShape(name, a))
                          /\ IndAfter(tag) = Append(IndOf(tag), Len(VecOf(tag)))
                          /\ VecAfter(other) = VecOf(other)
                          /\ IndAfter(other) = IndOf(other)
        /\ (op'.name = "update" /\ status' = "running") =>
              \A i \in 1 .. Len(calls') :
                  calls'[i].call = "draw_shape" =>
                     /\ calls'[i].list \in ListTags
                     /\ calls'[i].shape = VecOf(calls'[i].list)[calls'[i].index + 1]
                     /\ calls'[i].gpu =
                           DrawShapeCalls(styles[calls'[i].shape.style], calls'[i].shape)
      ]_vars

\* A fogged solid shape was created with camera false after an identical one,
\* and the two are stored alike.
C31_Witness ==
    /\ status = "running"
    /\ op.name = "shape_solid"
    /\ ~op.args.camera
    /\ op.args.fog
    /\ ret = Some(Opaque(1))
    /\ opaque_vec[2].has_fog
    /\ opaque_vec[1] = opaque_vec[2]

====
